---- MODULE Spec2Model ----
(***************************************************************************)
(* Realtime messaging engine of the chat server: the connection registry   *)
(* (app/websocket/manager.py), the per-connection router and handlers      *)
(* (app/websocket/handler.py, app/controllers/websocket.py), the presence  *)
(* store and offline queue (app/cache/websockets.py) and the message store *)
(* facade (app/services/messaging.py).                                     *)
(*                                                                         *)
(* Every connection is one coroutine; pc[s] is its position.  A step of    *)
(* the model is the code between two awaits of one coroutine, so the       *)
(* reachable states are exactly the points at which another coroutine can  *)
(* observe the shared state.                                               *)
(***************************************************************************)
EXTENDS Integers, Sequences, FiniteSets, TLC

\* ------------------------------------------------------- program constants
MAX_CONNECTIONS_PER_USER == 5
ONLINE_TTL == 300

\* ------------------------------------------------------------------ bounds
MaxFrames == 2      \* client frames accepted by the routers in one run
MaxTicks == 1       \* clock advances in one run, each of one presence TTL
CapExtra == 1       \* connection attempts beyond the per-user cap (registry scenario)

\* ---------------------------------------------------------------- universe
Users == {"A", "B"}
MsgSockets == {1, 2, 3}
CapSockets == 11 .. (10 + MAX_CONNECTIONS_PER_USER + CapExtra)
Sockets == MsgSockets \cup CapSockets
\* the verified identity the auth collaborator yields for a connection
Owner(s) == IF s = 1 \/ s > 10 THEN "A" ELSE "B"
Groups == {"G", "H"}
\* rows of group_members
Members(g) == IF g = "G" THEN <<"A", "B">> ELSE <<"B">>
MsgIds == 1 .. MaxFrames
None == -1
NoRow == [absent |-> TRUE]

VARIABLES
    pc,                  \* position of each connection coroutine
    alive,               \* the client end of the socket is still there
    close_reason,        \* reason of a server-side close
    active_connections,  \* WebSocketManager.active_connections (absent key = {})
    ws_to_user,          \* WebSocketManager._ws_to_user (absent key = "none")
    online,              \* Redis online:{user}: expiry time, 0 = no key
    queue,               \* Redis offline_queue:{user}: list, index 1 = head
    messages,            \* table messages
    group_messages,      \* table group_messages
    tasks,               \* persist tasks created by asyncio.create_task, not yet run
    now,                 \* wall clock, seconds
    nextId,              \* next message id uuid4() returns
    received,            \* number of client frames read by the routers
    frames,              \* frames written to each socket, in order
    loc                  \* local variables of the handler each coroutine runs

vars == <<pc, alive, close_reason, active_connections, ws_to_user, online, queue,
          messages, group_messages, tasks, now, nextId, received, frames, loc>>

\* ----------------------------------------------------------------- helpers
LocInit == [kind |-> "none", id |-> 0, ts |-> 0, to |-> "none", group |-> "none",
            cur |-> "none", snap |-> {}, nsnap |-> 0, failed |-> <<>>,
            delivered |-> FALSE, queued |-> <<>>, msgs |-> <<>>,
            nfail |-> 0, todo |-> <<>>, offl |-> <<>>, dcount |-> 0,
            is_online |-> FALSE, wr |-> 0]

\* the frames of handler.py, reduced to the fields the handlers decide
Frame(type, id, sender, ids, delivered, isqueued, dcount, code) ==
    [type |-> type, id |-> id, sender |-> sender, ids |-> ids, delivered |-> delivered,
     queued |-> isqueued, dcount |-> dcount, code |-> code]

MsgNew(id, sender) == Frame("message.new", id, sender, <<>>, FALSE, FALSE, 0, "")
MsgGroupNew(id, sender) == Frame("message.group.new", id, sender, <<>>, FALSE, FALSE, 0, "")
MsgOffline(ids) == Frame("messages.offline", 0, "none", ids, FALSE, FALSE, Len(ids), "")
MsgAck(id, delivered, isqueued, dcount) ==
    Frame("message.ack", id, "none", <<>>, delivered, isqueued, dcount, "")
MsgError(code) == Frame("error", 0, "none", <<>>, FALSE, FALSE, 0, code)
MsgReceipt(id, reader) == Frame("message.read.receipt", id, reader, <<>>, FALSE, FALSE, 0, "")
\* handler.py lines 190-194: user_id is kwargs.get("username"), and the router
\* loop passes no keyword arguments, so the field is null
MsgTyping == Frame("typing", 0, "none", <<>>, FALSE, FALSE, 0, "")
MsgPong == Frame("pong", 0, "none", <<>>, FALSE, FALSE, 0, "")

Pointer(id, type, group) == [message_id |-> id, type |-> type, group_id |-> group]

SeqToSet(q) == {q[i] : i \in 1 .. Len(q)}

\* RedisKeys / WebSocketCacheService
\* a variant of IsUserOnline that trusts the registry instead of the marker
IsUserOnlineAttached(u) == active_connections[u] /= {}
IsUserOnline(u) == online[u] > now
SetUserOnline(u) == [online EXCEPT ![u] = now + ONLINE_TTL]
SetUserOffline(u) == [online EXCEPT ![u] = 0]
LPush(u, ptr) == [queue EXCEPT ![u] = <<ptr>> \o @]

\* WebSocketManager.is_user_online_local
IsUserOnlineLocal(u) == active_connections[u] /= {}

CapReachedOffByOne(conns) == Cardinality(conns) > MAX_CONNECTIONS_PER_USER
\* manager.py line 31
CapReached(conns) == Cardinality(conns) >= MAX_CONNECTIONS_PER_USER

\* ---------------------------------------------------------------- initial
InitCommon ==
    /\ alive = [s \in Sockets |-> TRUE]
    /\ close_reason = [s \in Sockets |-> ""]
    /\ active_connections = [u \in Users |-> {}]
    /\ ws_to_user = [s \in Sockets |-> "none"]
    /\ online = [u \in Users |-> 0]
    /\ queue = [u \in Users |-> <<>>]
    /\ messages = [m \in MsgIds |-> NoRow]
    /\ group_messages = [m \in MsgIds |-> NoRow]
    /\ tasks = {}
    /\ now = 0
    /\ nextId = 1
    /\ received = 0
    /\ frames = [s \in Sockets |-> <<>>]
    /\ loc = [s \in Sockets |-> LocInit]

Init ==
    /\ pc = [s \in Sockets |-> IF s \in MsgSockets THEN "idle" ELSE "unused"]
    /\ InitCommon

InitCap ==
    /\ pc = [s \in Sockets |-> IF s \in CapSockets THEN "idle" ELSE "unused"]
    /\ InitCommon

\* ------------------------------------------------------------- environment
Tick ==
    /\ now + ONLINE_TTL <= MaxTicks * ONLINE_TTL
    /\ now' = now + ONLINE_TTL
    /\ UNCHANGED <<pc, alive, close_reason, active_connections, ws_to_user, online,
                   queue, messages, group_messages, tasks, nextId, received, frames, loc>>

\* the client goes away: reads on the socket raise WebSocketDisconnect and
\* writes to it raise
ClientClose(s) ==
    /\ pc[s] \notin {"idle", "unused", "closed", "refused"}
    /\ alive[s]
    /\ alive' = [alive EXCEPT ![s] = FALSE]
    /\ UNCHANGED <<pc, close_reason, active_connections, ws_to_user, online, queue,
                   messages, group_messages, tasks, now, nextId, received, frames, loc>>

\* ------------------------------------------------- WebSocketManager.connection
\* a variant of Connect that closes the socket over the cap but does not raise
ConnectNoRaise(s) ==
    /\ pc[s] = "idle"
    /\ close_reason' = IF CapReached(active_connections[Owner(s)])
                       THEN [close_reason EXCEPT ![s] = "Too many connections"]
                       ELSE close_reason
    /\ active_connections' = [active_connections EXCEPT ![Owner(s)] = @ \cup {s}]
    /\ ws_to_user' = [ws_to_user EXCEPT ![s] = Owner(s)]
    /\ pc' = [pc EXCEPT ![s] = "set_online"]
    /\ UNCHANGED <<alive, online, queue, messages, group_messages, tasks, now,
                   nextId, received, frames, loc>>

\* manager.py lines 28-40: once accept() has returned, the cap check and the
\* insertion into both maps run with no await between them
Connect(s) ==
    /\ pc[s] = "idle"
    /\ IF CapReached(active_connections[Owner(s)])
       THEN /\ close_reason' = [close_reason EXCEPT ![s] = "Too many connections"]
            /\ pc' = [pc EXCEPT ![s] = "refused"]
            /\ UNCHANGED <<active_connections, ws_to_user>>
       ELSE /\ active_connections' = [active_connections EXCEPT ![Owner(s)] = @ \cup {s}]
            /\ ws_to_user' = [ws_to_user EXCEPT ![s] = Owner(s)]
            /\ pc' = [pc EXCEPT ![s] = "set_online"]
            /\ UNCHANGED close_reason
    /\ UNCHANGED <<alive, online, queue, messages, group_messages, tasks, now,
                   nextId, received, frames, loc>>

\* manager.py line 42
SetOnline(s) ==
    /\ pc[s] = "set_online"
    /\ online' = SetUserOnline(Owner(s))
    /\ pc' = [pc EXCEPT ![s] = "flush_get"]
    /\ UNCHANGED <<alive, close_reason, active_connections, ws_to_user, queue,
                   messages, group_messages, tasks, now, nextId, received, frames, loc>>

\* ------------------------------------------------ WebSocketManager._disconnect
\* lines 52-55, the part before the await of _set_user_offline
\* a variant of DisconnectLast that takes every detached socket for the last
DisconnectLastAny(conns, u, ws) == ws \in conns[u]
DisconnectLast(conns, u, ws) == conns[u] /= {} /\ conns[u] \ {ws} = {}
\* a variant of DisconnectFwd that drops every socket of the user
DisconnectFwdAll(conns, u, ws) == [conns EXCEPT ![u] = {}]
DisconnectFwd(conns, u, ws) == [conns EXCEPT ![u] = @ \ {ws}]
\* line 58
DisconnectRev(rev, ws) == [rev EXCEPT ![ws] = "none"]

\* the finally clause of connection(): _disconnect up to its await
DetachMaps(s) ==
    /\ pc[s] = "closing"
    /\ active_connections' = DisconnectFwd(active_connections, Owner(s), s)
    /\ IF DisconnectLast(active_connections, Owner(s), s)
       THEN /\ pc' = [pc EXCEPT ![s] = "closing_offline"]
            /\ UNCHANGED ws_to_user
       ELSE /\ pc' = [pc EXCEPT ![s] = "closed"]
            /\ ws_to_user' = DisconnectRev(ws_to_user, s)
    /\ UNCHANGED <<alive, close_reason, online, queue, messages, group_messages,
                   tasks, now, nextId, received, frames, loc>>

\* _disconnect lines 56-58: mark offline, then drop the reverse entry
DetachOffline(s) ==
    /\ pc[s] = "closing_offline"
    /\ online' = SetUserOffline(Owner(s))
    /\ ws_to_user' = DisconnectRev(ws_to_user, s)
    /\ pc' = [pc EXCEPT ![s] = "closed"]
    /\ UNCHANGED <<alive, close_reason, active_connections, queue, messages,
                   group_messages, tasks, now, nextId, received, frames, loc>>

\* line 56 when the DEL raises: the exception leaves _disconnect before line
\* 58 and then the finally clause of connection()
DetachOfflineFails(s) ==
    /\ pc[s] = "closing_offline"
    /\ pc' = [pc EXCEPT ![s] = "closed"]
    /\ UNCHANGED <<alive, close_reason, active_connections, ws_to_user, online, queue,
                   messages, group_messages, tasks, now, nextId, received, frames, loc>>

\* line 42 when the SET raises: connected is already True, so the finally
\* clause runs _disconnect
SetOnlineFails(s) ==
    /\ pc[s] = "set_online"
    /\ pc' = [pc EXCEPT ![s] = "closing"]
    /\ UNCHANGED <<alive, close_reason, active_connections, ws_to_user, online, queue,
                   messages, group_messages, tasks, now, nextId, received, frames, loc>>

\* ------------------------------------------------------------ message store
DirectRow(sender, recipient, created, delivered) ==
    [absent |-> FALSE, sender |-> sender, recipient |-> recipient,
     created_at |-> created, delivered_at |-> delivered, read_at |-> None]
GroupRow(sender, group, created) ==
    [absent |-> FALSE, sender |-> sender, group |-> group, created_at |-> created]

\* MessageService.save_direct_message: created_at defaults to NOW() of the
\* insert (migration 003), delivered_at is the caller's value
SaveDirectMessage(id, sender, recipient, delivered) ==
    [messages EXCEPT ![id] = DirectRow(sender, recipient, now, delivered)]
\* GroupMessageService.save_group_message
SaveGroupMessage(id, group, sender) ==
    [group_messages EXCEPT ![id] = GroupRow(sender, group, now)]

MarkAsDeliveredAlways(id) ==
    IF ~messages[id].absent
    THEN [messages EXCEPT ![id].delivered_at = now]
    ELSE messages
\* a variant of MarkAsDelivered whose UPDATE matches no row
MarkAsDeliveredNoRow(id) == messages
\* MessageService.mark_as_delivered: UPDATE ... WHERE delivered_at IS NULL
MarkAsDelivered(id) ==
    IF ~messages[id].absent /\ messages[id].delivered_at = None
    THEN [messages EXCEPT ![id].delivered_at = now]
    ELSE messages

MarkAsReadAnyUser(id, user) ==
    IF ~messages[id].absent /\ messages[id].read_at = None
    THEN [messages EXCEPT ![id].read_at = now]
    ELSE messages
\* MessageService.mark_as_read: UPDATE ... WHERE recipient_id = $2 AND read_at IS NULL
MarkAsRead(id, user) ==
    IF ~messages[id].absent /\ messages[id].recipient = user /\ messages[id].read_at = None
    THEN [messages EXCEPT ![id].read_at = now]
    ELSE messages

\* MessageService.get_message_sender
GetMessageSender(id) == IF messages[id].absent THEN "none" ELSE messages[id].sender

\* get_message / get_group_message as deliver_offline_messages uses them
Resolves(ptr) ==
    IF ptr.type = "direct" THEN ~messages[ptr.message_id].absent
    ELSE IF ptr.type = "group" THEN ~group_messages[ptr.message_id].absent
    ELSE FALSE

\* a task started by asyncio.create_task runs at some later point
PersistTask(t) ==
    /\ t \in tasks
    /\ tasks' = tasks \ {t}
    /\ IF t.kind = "direct"
       THEN /\ messages' = SaveDirectMessage(t.id, t.sender, t.to, t.delivered_at)
            /\ UNCHANGED group_messages
       ELSE /\ group_messages' = SaveGroupMessage(t.id, t.to, t.sender)
            /\ UNCHANGED messages
    /\ UNCHANGED <<pc, alive, close_reason, active_connections, ws_to_user, online,
                   queue, now, nextId, received, frames, loc>>

\* ------------------------------------------------ the endpoint's store connection
\* controllers/websocket.py line 22: every service of one websocket, and so
\* every persist task its handler creates, works on the one pooled connection
\* the endpoint was given; the pool takes it back when the endpoint returns
Released(c) == pc[c] = "closed"

\* the handler of connection c is suspended in a statement on the store
DbAwait(c) == pc[c] \in {"d_save", "r_lookup", "flush_resolve", "flush_mark"}

\* the persist tasks of connection c whose statement is in progress
Running(c) == {t \in tasks : t.conn = c /\ t.started}

DbBusy(c) == DbAwait(c) \/ Running(c) /= {}

\* services/messaging.py line 36: the
\* task reaches its fetchrow() and finds the connection idle
TaskStart(t) ==
    /\ t \in tasks
    /\ ~t.started
    /\ ~Released(t.conn)
    /\ ~DbBusy(t.conn)
    /\ tasks' = (tasks \ {t}) \cup {[t EXCEPT !.started = TRUE]}
    /\ UNCHANGED <<pc, alive, close_reason, active_connections, ws_to_user, online,
                   queue, messages, group_messages, now, nextId, received, frames, loc>>

\* the statement of a started task completes
TaskFinish(t) ==
    /\ t.started
    /\ PersistTask(t)

\* the task reaches its fetchrow() when the connection carries another
\* statement, or after the pool took the connection back: the driver raises
\* InterfaceError inside the task, which nothing awaits, and no row is written
TaskRefused(t) ==
    /\ t \in tasks
    /\ ~t.started
    /\ Released(t.conn) \/ DbBusy(t.conn)
    /\ tasks' = tasks \ {t}
    /\ UNCHANGED <<pc, alive, close_reason, active_connections, ws_to_user, online,
                   queue, messages, group_messages, now, nextId, received, frames, loc>>

\* the endpoint returns while the statement of a task is in progress: the
\* pool's release finds the connection busy and terminates it, the statement
\* may not have reached the store and the task's exception is never read
TaskAborted(t) ==
    /\ t \in tasks
    /\ t.started
    /\ Released(t.conn)
    /\ tasks' = tasks \ {t}
    /\ UNCHANGED <<pc, alive, close_reason, active_connections, ws_to_user, online,
                   queue, messages, group_messages, now, nextId, received, frames, loc>>

\* ------------------------------------------ WebSocketHandler.deliver_offline_messages
\* line 210: LRANGE 0 -1 returns the list from its head
FlushGet(s) ==
    /\ pc[s] = "flush_get"
    /\ IF queue[Owner(s)] = <<>>
       THEN /\ pc' = [pc EXCEPT ![s] = "open"]
            /\ UNCHANGED loc
       ELSE /\ pc' = [pc EXCEPT ![s] = "flush_resolve"]
            /\ loc' = [loc EXCEPT ![s] = [LocInit EXCEPT !.kind = "flush",
                                                       !.queued = queue[Owner(s)]]]
    /\ UNCHANGED <<alive, close_reason, active_connections, ws_to_user, online, queue,
                   messages, group_messages, tasks, now, nextId, received, frames>>

\* a variant of FlushResolve that gives up the rest of the queue at the first
\* pointer without a row
FlushResolveStops(s) ==
    /\ pc[s] = "flush_resolve"
    /\ LET ptr == Head(loc[s].queued)
           rest == IF Resolves(ptr) THEN Tail(loc[s].queued) ELSE <<>>
           msgs == IF Resolves(ptr) THEN Append(loc[s].msgs, ptr) ELSE loc[s].msgs
       IN /\ loc' = [loc EXCEPT ![s].queued = rest, ![s].msgs = msgs]
          /\ pc' = [pc EXCEPT ![s] = IF rest /= <<>> THEN "flush_resolve"
                                     ELSE IF msgs = <<>> THEN "open"
                                     ELSE "flush_send"]
    /\ UNCHANGED <<alive, close_reason, active_connections, ws_to_user, online, queue,
                   messages, group_messages, tasks, now, nextId, received, frames>>

\* lines 216-234: one pointer per store lookup; a pointer without a row is skipped
FlushResolve(s) ==
    /\ pc[s] = "flush_resolve"
    /\ LET ptr == Head(loc[s].queued)
           rest == Tail(loc[s].queued)
           msgs == IF Resolves(ptr) THEN Append(loc[s].msgs, ptr) ELSE loc[s].msgs
       IN /\ loc' = [loc EXCEPT ![s].queued = rest, ![s].msgs = msgs]
          /\ pc' = [pc EXCEPT ![s] = IF rest /= <<>> THEN "flush_resolve"
                                     ELSE IF msgs = <<>> THEN "open"
                                     ELSE "flush_send"]
    /\ UNCHANGED <<alive, close_reason, active_connections, ws_to_user, online, queue,
                   messages, group_messages, tasks, now, nextId, received, frames>>

BatchIds(msgs) == [i \in 1 .. Len(msgs) |-> msgs[i].message_id]

\* a variant of FlushSend that goes on to mark and clear after a failed write
FlushSendIgnoresFailure(s) ==
    /\ pc[s] = "flush_send"
    /\ frames' = IF alive[s]
                 THEN [frames EXCEPT ![s] = Append(@, MsgOffline(BatchIds(loc[s].msgs)))]
                 ELSE frames
    /\ pc' = [pc EXCEPT ![s] = "flush_mark"]
    /\ UNCHANGED <<alive, close_reason, active_connections, ws_to_user, online, queue,
                   messages, group_messages, tasks, now, nextId, received, loc>>

\* line 242: the write of the batch; a failed write leaves the body of the
\* connection context, whose finally clause detaches the socket (the batch
\* that was not written stays in loc, nothing reads it again)
FlushSend(s) ==
    /\ pc[s] = "flush_send"
    /\ IF alive[s]
       THEN /\ frames' = [frames EXCEPT ![s] = Append(@, MsgOffline(BatchIds(loc[s].msgs)))]
            /\ pc' = [pc EXCEPT ![s] = "flush_mark"]
       ELSE /\ pc' = [pc EXCEPT ![s] = "closing"]
            /\ UNCHANGED frames
    /\ UNCHANGED loc
    /\ UNCHANGED <<alive, close_reason, active_connections, ws_to_user, online, queue,
                   messages, group_messages, tasks, now, nextId, received>>

\* lines 244-246: one UPDATE per direct message of the batch
FlushMark(s) ==
    /\ pc[s] = "flush_mark"
    /\ loc[s].msgs /= <<>>
    /\ LET msg == Head(loc[s].msgs)
       IN messages' = IF msg.type = "direct" THEN MarkAsDelivered(msg.message_id)
                      ELSE messages
    /\ loc' = [loc EXCEPT ![s].msgs = Tail(@)]
    /\ UNCHANGED <<pc, alive, close_reason, active_connections, ws_to_user, online,
                   queue, group_messages, tasks, now, nextId, received, frames>>

\* line 248: DEL of the whole key
FlushClear(s) ==
    /\ pc[s] = "flush_mark"
    /\ loc[s].msgs = <<>>
    /\ queue' = [queue EXCEPT ![Owner(s)] = <<>>]
    /\ pc' = [pc EXCEPT ![s] = "open"]
    /\ loc' = [loc EXCEPT ![s] = LocInit]
    /\ UNCHANGED <<alive, close_reason, active_connections, ws_to_user, online,
                   messages, group_messages, tasks, now, nextId, received, frames>>

\* ------------------------------------------------------------------ router
\* controllers/websocket.py lines 62-65: receive_text raises WebSocketDisconnect
Disconnect(s) ==
    /\ pc[s] = "open"
    /\ ~alive[s]
    /\ pc' = [pc EXCEPT ![s] = "closing"]
    /\ UNCHANGED <<alive, close_reason, active_connections, ws_to_user, online, queue,
                   messages, group_messages, tasks, now, nextId, received, frames, loc>>

CanReceive(s) == pc[s] = "open" /\ alive[s] /\ received < MaxFrames

\* a variant of RejectFrame that ends the connection after the error frame
RejectFrameCloses(s, code) ==
    /\ CanReceive(s)
    /\ received' = received + 1
    /\ frames' = [frames EXCEPT ![s] = Append(@, MsgError(code))]
    /\ pc' = [pc EXCEPT ![s] = "closing"]
    /\ UNCHANGED <<alive, close_reason, active_connections, ws_to_user, online,
                   queue, messages, group_messages, tasks, now, nextId, loc>>

\* handler.py lines 77-83 and the other validation exits: one error frame, the
\* router reads on
RejectFrame(s, code) ==
    /\ CanReceive(s)
    /\ received' = received + 1
    /\ frames' = [frames EXCEPT ![s] = Append(@, MsgError(code))]
    /\ UNCHANGED <<pc, alive, close_reason, active_connections, ws_to_user, online,
                   queue, messages, group_messages, tasks, now, nextId, loc>>

\* ------------------------------------------------ WebSocketManager.send_to_user
\* The frame a handler fans out
FanFrame(s, l) ==
    IF l.kind = "direct" THEN MsgNew(l.id, Owner(s))
    ELSE IF l.kind = "group" THEN MsgGroupNew(l.id, Owner(s))
    ELSE IF l.kind = "read" THEN MsgReceipt(l.id, Owner(s))
    ELSE MsgTyping

\* lines 94-95: _disconnect of the sockets whose write failed, in order, up to
\* the first one that awaits _set_user_offline (result.wait)
RECURSIVE DetachFailed(_, _, _, _)
DetachFailed(conns, rev, u, f) ==
    IF f = <<>> THEN [conns |-> conns, rev |-> rev, rest |-> <<>>, wait |-> FALSE]
    ELSE IF DisconnectLast(conns, u, Head(f))
         THEN [conns |-> DisconnectFwd(conns, u, Head(f)), rev |-> rev,
               rest |-> f, wait |-> TRUE]
         ELSE DetachFailed(DisconnectFwd(conns, u, Head(f)),
                           DisconnectRev(rev, Head(f)), u, Tail(f))

\* a variant of FanFinish that reports success whatever the writes did
FanFinishAlwaysSent(s, l) ==
    IF l.kind = "direct"
    THEN /\ pc' = [pc EXCEPT ![s] = "d_ack"]
         /\ loc' = [loc EXCEPT ![s] = [l EXCEPT !.delivered = TRUE]]
    ELSE IF l.kind = "group"
    THEN /\ pc' = [pc EXCEPT ![s] = "g_next"]
         /\ loc' = [loc EXCEPT ![s] = [l EXCEPT !.dcount = @ + 1]]
    ELSE IF l.kind = "typing_group"
    THEN /\ pc' = [pc EXCEPT ![s] = "t_next"]
         /\ loc' = [loc EXCEPT ![s] = l]
    ELSE /\ pc' = [pc EXCEPT ![s] = "open"]
         /\ loc' = [loc EXCEPT ![s] = LocInit]

\* line 97 and the return into the calling handler
FanFinish(s, l) ==
    LET d == l.nfail < l.nsnap
    IN IF l.kind = "direct"
       THEN /\ pc' = [pc EXCEPT ![s] = "d_ack"]
            /\ loc' = [loc EXCEPT ![s] = [l EXCEPT !.delivered = d]]
       ELSE IF l.kind = "group"
       THEN /\ pc' = [pc EXCEPT ![s] = "g_next"]
            /\ loc' = [loc EXCEPT ![s] = [l EXCEPT !.dcount = @ + (IF d THEN 1 ELSE 0)]]
       ELSE IF l.kind = "typing_group"
       THEN /\ pc' = [pc EXCEPT ![s] = "t_next"]
            /\ loc' = [loc EXCEPT ![s] = l]
       ELSE /\ pc' = [pc EXCEPT ![s] = "open"]
            /\ loc' = [loc EXCEPT ![s] = LocInit]

\* a variant of FanWriteTo that gives up the loop at the first failed write
FanWriteToStops(s, ws, l) ==
    /\ IF alive[ws]
       THEN /\ frames' = [frames EXCEPT ![ws] = Append(@, FanFrame(s, l))]
            /\ loc' = [loc EXCEPT ![s] = [l EXCEPT !.snap = @ \ {ws}]]
       ELSE /\ UNCHANGED frames
            /\ loc' = [loc EXCEPT ![s] = [l EXCEPT !.snap = {},
                                                   !.failed = Append(@, ws),
                                                   !.nfail = @ + 1]]
    /\ pc' = [pc EXCEPT ![s] = "fan_write"]

\* line 90: one write; a write to a socket whose client is gone raises
FanWriteTo(s, ws, l) ==
    /\ IF alive[ws]
       THEN /\ frames' = [frames EXCEPT ![ws] = Append(@, FanFrame(s, l))]
            /\ loc' = [loc EXCEPT ![s] = [l EXCEPT !.snap = @ \ {ws}]]
       ELSE /\ UNCHANGED frames
            /\ loc' = [loc EXCEPT ![s] = [l EXCEPT !.snap = @ \ {ws},
                                                   !.failed = Append(@, ws),
                                                   !.nfail = @ + 1]]
    /\ pc' = [pc EXCEPT ![s] = "fan_write"]

\* lines 78-90: no sockets, or the snapshot and the first write
FanStart(s) ==
    /\ pc[s] = "fan_start"
    /\ LET u == loc[s].cur
       IN IF active_connections[u] = {}
          THEN /\ FanFinish(s, [loc[s] EXCEPT !.nsnap = 0, !.nfail = 0, !.failed = <<>>])
               /\ UNCHANGED frames
          ELSE \E ws \in active_connections[u] :
                  FanWriteTo(s, ws, [loc[s] EXCEPT !.snap = active_connections[u],
                                                   !.nsnap = Cardinality(active_connections[u]),
                                                   !.nfail = 0, !.failed = <<>>])
    /\ UNCHANGED <<alive, close_reason, active_connections, ws_to_user, online, queue,
                   messages, group_messages, tasks, now, nextId, received>>

\* lines 88-92: the next write of the loop
FanWrite(s) ==
    /\ pc[s] = "fan_write"
    /\ loc[s].snap /= {}
    /\ \E ws \in loc[s].snap : FanWriteTo(s, ws, loc[s])
    /\ UNCHANGED <<alive, close_reason, active_connections, ws_to_user, online, queue,
                   messages, group_messages, tasks, now, nextId, received>>

\* line 90 seen as two steps, for the question of which writes overlap:
\* send_text is awaited, and loc[s].wr is the socket whose send_text the
\* coroutine of s is inside (0: none). Lines 78-90: the snapshot, and the
\* first send_text is entered
SendBegin(s) ==
    /\ pc[s] = "fan_start"
    /\ active_connections[loc[s].cur] /= {}
    /\ \E ws \in active_connections[loc[s].cur] :
          loc' = [loc EXCEPT ![s] =
                    [@ EXCEPT !.snap = active_connections[loc[s].cur],
                              !.nsnap = Cardinality(active_connections[loc[s].cur]),
                              !.nfail = 0, !.failed = <<>>, !.wr = ws]]
    /\ pc' = [pc EXCEPT ![s] = "fan_sending"]
    /\ UNCHANGED <<alive, close_reason, active_connections, ws_to_user, online, queue,
                   messages, group_messages, tasks, now, nextId, received, frames>>

\* lines 88-90: the next send_text of the loop is entered
SendNext(s) ==
    /\ pc[s] = "fan_write"
    /\ loc[s].snap /= {}
    /\ \E ws \in loc[s].snap : loc' = [loc EXCEPT ![s].wr = ws]
    /\ pc' = [pc EXCEPT ![s] = "fan_sending"]
    /\ UNCHANGED <<alive, close_reason, active_connections, ws_to_user, online, queue,
                   messages, group_messages, tasks, now, nextId, received, frames>>

\* lines 90-92: the send_text returns or raises
SendEnd(s) ==
    /\ pc[s] = "fan_sending"
    /\ FanWriteTo(s, loc[s].wr, [loc[s] EXCEPT !.wr = 0])
    /\ UNCHANGED <<alive, close_reason, active_connections, ws_to_user, online, queue,
                   messages, group_messages, tasks, now, nextId, received>>

\* lines 78-83: the user has no sockets
FanNoSockets(s) ==
    /\ pc[s] = "fan_start"
    /\ active_connections[loc[s].cur] = {}
    /\ FanStart(s)

\* lines 94-97 after the last write returned
FanDone(s) ==
    /\ pc[s] = "fan_write"
    /\ loc[s].snap = {}
    /\ LET r == DetachFailed(active_connections, ws_to_user, loc[s].cur, loc[s].failed)
       IN /\ active_connections' = r.conns
          /\ ws_to_user' = r.rev
          /\ IF r.wait
             THEN /\ pc' = [pc EXCEPT ![s] = "fan_detach_off"]
                  /\ loc' = [loc EXCEPT ![s].failed = r.rest]
             ELSE FanFinish(s, [loc[s] EXCEPT !.failed = <<>>])
    /\ UNCHANGED <<alive, close_reason, online, queue, messages, group_messages,
                   tasks, now, nextId, received, frames>>

\* _disconnect lines 56-58 inside send_to_user, then the rest of the loop
FanDetachOffline(s) ==
    /\ pc[s] = "fan_detach_off"
    /\ online' = SetUserOffline(loc[s].cur)
    /\ LET r == DetachFailed(active_connections,
                             DisconnectRev(ws_to_user, Head(loc[s].failed)),
                             loc[s].cur, Tail(loc[s].failed))
       IN /\ active_connections' = r.conns
          /\ ws_to_user' = r.rev
          /\ IF r.wait
             THEN /\ pc' = [pc EXCEPT ![s] = "fan_detach_off"]
                  /\ loc' = [loc EXCEPT ![s].failed = r.rest]
             ELSE FanFinish(s, [loc[s] EXCEPT !.failed = <<>>])
    /\ UNCHANGED <<alive, close_reason, queue, messages, group_messages,
                   tasks, now, nextId, received, frames>>

\* ------------------------------------------ WebSocketHandler._handle_direct_message
\* lines 85-102: mint id and timestamp, read the presence marker
DirectBegin(s, rcpt) ==
    /\ CanReceive(s)
    /\ rcpt /= Owner(s)
    /\ received' = received + 1
    /\ nextId' = nextId + 1
    /\ loc' = [loc EXCEPT ![s] = [LocInit EXCEPT !.kind = "direct", !.id = nextId,
                                                 !.ts = now, !.to = rcpt, !.cur = rcpt,
                                                 !.is_online = IsUserOnline(rcpt)]]
    /\ pc' = [pc EXCEPT ![s] = IF IsUserOnline(rcpt) THEN "fan_start" ELSE "d_save"]
    /\ UNCHANGED <<alive, close_reason, active_connections, ws_to_user, online, queue,
                   messages, group_messages, tasks, now, frames>>

\* a variant of DirectSave that hands the INSERT to a task instead of awaiting it
DirectSaveDeferred(s) ==
    /\ pc[s] = "d_save"
    /\ tasks' = tasks \cup {[kind |-> "direct", id |-> loc[s].id, sender |-> Owner(s),
                              to |-> loc[s].to, delivered_at |-> None,
                              conn |-> s, started |-> FALSE]}
    /\ pc' = [pc EXCEPT ![s] = "d_queue"]
    /\ UNCHANGED <<alive, close_reason, active_connections, ws_to_user, online, queue,
                   messages, group_messages, now, nextId, received, frames, loc>>

\* lines 110-112
DirectSave(s) ==
    /\ pc[s] = "d_save"
    /\ messages' = SaveDirectMessage(loc[s].id, Owner(s), loc[s].to, None)
    /\ pc' = [pc EXCEPT ![s] = "d_queue"]
    /\ UNCHANGED <<alive, close_reason, active_connections, ws_to_user, online, queue,
                   group_messages, tasks, now, nextId, received, frames, loc>>

\* a variant of DirectSaveFails that swallows the store's exception and goes on
DirectSaveFailsGoesOn(s) ==
    /\ pc[s] = "d_save"
    /\ pc' = [pc EXCEPT ![s] = "d_queue"]
    /\ UNCHANGED <<alive, close_reason, active_connections, ws_to_user, online, queue,
                   messages, group_messages, tasks, now, nextId, received, frames, loc>>

\* lines 110-112 when the INSERT raises: the exception leaves the handler and
\* handle_message (lines 68-69) answers with one INTERNAL_ERROR frame; if that
\* write raises too, the exception leaves the router loop
DirectSaveFails(s) ==
    /\ pc[s] = "d_save"
    /\ IF alive[s]
       THEN /\ frames' = [frames EXCEPT ![s] = Append(@, MsgError("INTERNAL_ERROR"))]
            /\ pc' = [pc EXCEPT ![s] = "open"]
       ELSE /\ UNCHANGED frames
            /\ pc' = [pc EXCEPT ![s] = "closing"]
    /\ loc' = [loc EXCEPT ![s] = LocInit]
    /\ UNCHANGED <<alive, close_reason, active_connections, ws_to_user, online, queue,
                   messages, group_messages, tasks, now, nextId, received>>

\* line 113
DirectQueue(s) ==
    /\ pc[s] = "d_queue"
    /\ queue' = LPush(loc[s].to, Pointer(loc[s].id, "direct", "none"))
    /\ pc' = [pc EXCEPT ![s] = "d_ack"]
    /\ UNCHANGED <<alive, close_reason, active_connections, ws_to_user, online,
                   messages, group_messages, tasks, now, nextId, received, frames, loc>>

\* a variant of DirectTask that stamps delivered_at whatever send_to_user returned
DirectTaskStamped(s) ==
    [kind |-> "direct", id |-> loc[s].id, sender |-> Owner(s), to |-> loc[s].to,
     delivered_at |-> loc[s].ts, conn |-> s, started |-> FALSE]

\* lines 104-107: the arguments of the save_direct_message task; loc[s].ts is
\* the handler's `timestamp`, the created_at field of the frame (line 98)
DirectTask(s) ==
    [kind |-> "direct", id |-> loc[s].id, sender |-> Owner(s), to |-> loc[s].to,
     delivered_at |-> IF loc[s].delivered THEN loc[s].ts ELSE None,
     conn |-> s, started |-> FALSE]

\* a variant of DirectAck that reports every message as queued
DirectAckSaysQueued(s) ==
    /\ pc[s] = "d_ack"
    /\ tasks' = IF loc[s].is_online THEN tasks \cup {DirectTask(s)} ELSE tasks
    /\ IF alive[s]
       THEN /\ frames' = [frames EXCEPT ![s] = Append(@, MsgAck(loc[s].id, FALSE, TRUE, 0))]
            /\ pc' = [pc EXCEPT ![s] = "open"]
       ELSE /\ UNCHANGED frames
            /\ pc' = [pc EXCEPT ![s] = "closing"]
    /\ loc' = [loc EXCEPT ![s] = LocInit]
    /\ UNCHANGED <<alive, close_reason, active_connections, ws_to_user, online, queue,
                   messages, group_messages, now, nextId, received>>

\* lines 104-108 and 114: the persist task of the live path, then the ack; a
\* failed write to the sender's own socket ends its connection
DirectAck(s) ==
    /\ pc[s] = "d_ack"
    /\ tasks' = IF loc[s].is_online THEN tasks \cup {DirectTask(s)} ELSE tasks
    /\ IF alive[s]
       THEN /\ frames' = [frames EXCEPT ![s] =
                    Append(@, IF loc[s].is_online
                              THEN MsgAck(loc[s].id, loc[s].delivered, FALSE, 0)
                              ELSE MsgAck(loc[s].id, FALSE, TRUE, 0))]
            /\ pc' = [pc EXCEPT ![s] = "open"]
       ELSE /\ UNCHANGED frames
            /\ pc' = [pc EXCEPT ![s] = "closing"]
    /\ loc' = [loc EXCEPT ![s] = LocInit]
    /\ UNCHANGED <<alive, close_reason, active_connections, ws_to_user, online, queue,
                   messages, group_messages, now, nextId, received>>

\* ------------------------------------------- WebSocketHandler._handle_group_message
\* a variant of IsMember that lets every user pass
IsMemberAnyone(u, g) == TRUE
\* line 131
IsMember(u, g) == u \in SeqToSet(Members(g))

\* lines 130-133
GroupNotMember(s, g) ==
    /\ ~IsMember(Owner(s), g)
    /\ RejectFrame(s, "NOT_MEMBER")

\* lines 135-148: mint, then get_online_users_from_list partitions the members
GroupBegin(s, g) ==
    /\ CanReceive(s)
    /\ IsMember(Owner(s), g)
    /\ received' = received + 1
    /\ nextId' = nextId + 1
    /\ loc' = [loc EXCEPT ![s] =
           [LocInit EXCEPT !.kind = "group", !.id = nextId, !.ts = now, !.group = g,
                           !.todo = SelectSeq(Members(g), LAMBDA u : IsUserOnline(u)),
                           !.offl = SelectSeq(Members(g), LAMBDA u : ~IsUserOnline(u))]]
    /\ pc' = [pc EXCEPT ![s] = "g_next"]
    /\ UNCHANGED <<alive, close_reason, active_connections, ws_to_user, online, queue,
                   messages, group_messages, tasks, now, frames>>

\* manager.py lines 122-132: the members the broadcast passes over without a write
\* a variant of SkipMembers that passes over unattached members only, not the sender
SkipUnattached(todo, sender) == SelectSeq(todo, LAMBDA u : IsUserOnlineLocal(u))
RECURSIVE SkipMembers(_, _)
SkipMembers(todo, sender) ==
    IF todo = <<>> THEN <<>>
    ELSE IF Head(todo) = sender \/ ~IsUserOnlineLocal(Head(todo))
         THEN SkipMembers(Tail(todo), sender)
         ELSE todo

\* broadcast_to_group: up to the next send_to_user, or on to the queue loop
GroupNext(s) ==
    /\ pc[s] = "g_next"
    /\ LET t == SkipMembers(loc[s].todo, Owner(s))
       IN IF t = <<>>
          THEN /\ pc' = [pc EXCEPT ![s] = "g_queue"]
               /\ loc' = [loc EXCEPT ![s].todo = <<>>]
          ELSE /\ pc' = [pc EXCEPT ![s] = "fan_start"]
               /\ loc' = [loc EXCEPT ![s].todo = Tail(t), ![s].cur = Head(t)]
    /\ UNCHANGED <<alive, close_reason, active_connections, ws_to_user, online, queue,
                   messages, group_messages, tasks, now, nextId, received, frames>>

\* handler.py lines 154-156: the offline members other than the sender
OfflineTargets(offl, sender) == SelectSeq(offl, LAMBDA u : u /= sender)

GroupQueue(s) ==
    /\ pc[s] = "g_queue"
    /\ OfflineTargets(loc[s].offl, Owner(s)) /= <<>>
    /\ LET t == OfflineTargets(loc[s].offl, Owner(s))
       IN /\ queue' = LPush(Head(t), Pointer(loc[s].id, "group", loc[s].group))
          /\ loc' = [loc EXCEPT ![s].offl = Tail(t)]
    /\ UNCHANGED <<pc, alive, close_reason, active_connections, ws_to_user, online,
                   messages, group_messages, tasks, now, nextId, received, frames>>

GroupTask(s) ==
    [kind |-> "group", id |-> loc[s].id, sender |-> Owner(s), to |-> loc[s].group,
     delivered_at |-> None, conn |-> s, started |-> FALSE]

\* lines 158-162
GroupAck(s) ==
    /\ pc[s] = "g_queue"
    /\ OfflineTargets(loc[s].offl, Owner(s)) = <<>>
    /\ tasks' = tasks \cup {GroupTask(s)}
    /\ IF alive[s]
       THEN /\ frames' = [frames EXCEPT ![s] =
                    Append(@, MsgAck(loc[s].id, loc[s].dcount > 0, FALSE, loc[s].dcount))]
            /\ pc' = [pc EXCEPT ![s] = "open"]
       ELSE /\ UNCHANGED frames
            /\ pc' = [pc EXCEPT ![s] = "closing"]
    /\ loc' = [loc EXCEPT ![s] = LocInit]
    /\ UNCHANGED <<alive, close_reason, active_connections, ws_to_user, online, queue,
                   messages, group_messages, now, nextId, received>>

\* -------------------------------------------- WebSocketHandler._handle_read_receipt
\* the message ids a user's clients have been sent, in any frame
KnownIds(u) ==
    UNION {{frames[s][i].id : i \in 1 .. Len(frames[s])}
           \cup UNION {SeqToSet(frames[s][i].ids) : i \in 1 .. Len(frames[s])} :
             s \in {t \in Sockets : Owner(t) = u}}

\* line 172
ReadBegin(s, mid) ==
    /\ CanReceive(s)
    /\ mid \in KnownIds(Owner(s))
    /\ received' = received + 1
    /\ messages' = MarkAsRead(mid, Owner(s))
    /\ loc' = [loc EXCEPT ![s] = [LocInit EXCEPT !.kind = "read", !.id = mid]]
    /\ pc' = [pc EXCEPT ![s] = "r_lookup"]
    /\ UNCHANGED <<alive, close_reason, active_connections, ws_to_user, online, queue,
                   group_messages, tasks, now, nextId, frames>>

\* lines 174-182
ReadLookup(s) ==
    /\ pc[s] = "r_lookup"
    /\ LET sender == GetMessageSender(loc[s].id)
       IN IF sender /= "none" /\ sender /= Owner(s)
          THEN /\ pc' = [pc EXCEPT ![s] = "fan_start"]
               /\ loc' = [loc EXCEPT ![s].cur = sender]
          ELSE /\ pc' = [pc EXCEPT ![s] = "open"]
               /\ loc' = [loc EXCEPT ![s] = LocInit]
    /\ UNCHANGED <<alive, close_reason, active_connections, ws_to_user, online, queue,
                   messages, group_messages, tasks, now, nextId, received, frames>>

\* ---------------------------------------------------- WebSocketHandler._handle_typing
\* a variant of TypingDirect that leaves a pointer for a recipient without sockets
TypingDirectQueued(s, rcpt) ==
    /\ CanReceive(s)
    /\ received' = received + 1
    /\ loc' = [loc EXCEPT ![s] = [LocInit EXCEPT !.kind = "typing", !.to = rcpt,
                                                 !.cur = rcpt]]
    /\ pc' = [pc EXCEPT ![s] = "fan_start"]
    /\ queue' = IF IsUserOnlineLocal(rcpt) THEN queue
                ELSE LPush(rcpt, Pointer(0, "typing", "none"))
    /\ UNCHANGED <<alive, close_reason, active_connections, ws_to_user, online,
                   messages, group_messages, tasks, now, nextId, frames>>

\* lines 186-197: recipient_id is set, the frame goes to send_to_user
TypingDirect(s, rcpt) ==
    /\ CanReceive(s)
    /\ received' = received + 1
    /\ loc' = [loc EXCEPT ![s] = [LocInit EXCEPT !.kind = "typing", !.to = rcpt,
                                                 !.cur = rcpt]]
    /\ pc' = [pc EXCEPT ![s] = "fan_start"]
    /\ UNCHANGED <<alive, close_reason, active_connections, ws_to_user, online, queue,
                   messages, group_messages, tasks, now, nextId, frames>>

\* lines 198-200: group_id is set, the member list is read from the store
TypingGroup(s, g) ==
    /\ CanReceive(s)
    /\ received' = received + 1
    /\ loc' = [loc EXCEPT ![s] = [LocInit EXCEPT !.kind = "typing_group", !.group = g,
                                                 !.todo = Members(g)]]
    /\ pc' = [pc EXCEPT ![s] = "t_next"]
    /\ UNCHANGED <<alive, close_reason, active_connections, ws_to_user, online, queue,
                   messages, group_messages, tasks, now, nextId, frames>>

\* manager.py lines 102-104: the members send_to_users passes over
RECURSIVE SkipSender(_, _)
SkipSender(todo, sender) ==
    IF todo = <<>> THEN <<>>
    ELSE IF Head(todo) = sender THEN SkipSender(Tail(todo), sender)
         ELSE todo

\* handler.py line 201, manager.py lines 102-107: up to the next send_to_user,
\* or back to the router loop
TypingNext(s) ==
    /\ pc[s] = "t_next"
    /\ LET t == SkipSender(loc[s].todo, Owner(s))
       IN IF t = <<>>
          THEN /\ pc' = [pc EXCEPT ![s] = "open"]
               /\ loc' = [loc EXCEPT ![s] = LocInit]
          ELSE /\ pc' = [pc EXCEPT ![s] = "fan_start"]
               /\ loc' = [loc EXCEPT ![s].todo = Tail(t), ![s].cur = Head(t)]
    /\ UNCHANGED <<alive, close_reason, active_connections, ws_to_user, online, queue,
                   messages, group_messages, tasks, now, nextId, received, frames>>

\* ------------------------------------------------------ WebSocketHandler._handle_ping
\* cache/websockets.py lines 35-38: EXPIRE does nothing for a missing key
RefreshHeartbeat(u) ==
    IF online[u] > now THEN [online EXCEPT ![u] = now + ONLINE_TTL] ELSE online

\* handler.py line 205
PingBegin(s) ==
    /\ CanReceive(s)
    /\ received' = received + 1
    /\ online' = RefreshHeartbeat(Owner(s))
    /\ loc' = [loc EXCEPT ![s] = [LocInit EXCEPT !.kind = "ping"]]
    /\ pc' = [pc EXCEPT ![s] = "p_pong"]
    /\ UNCHANGED <<alive, close_reason, active_connections, ws_to_user, queue,
                   messages, group_messages, tasks, now, nextId, frames>>

\* line 206; a failed write is answered by handle_message (lines 68-69) with
\* an error frame whose write fails too, and the exception leaves the loop
PingPong(s) ==
    /\ pc[s] = "p_pong"
    /\ IF alive[s]
       THEN /\ frames' = [frames EXCEPT ![s] = Append(@, MsgPong)]
            /\ pc' = [pc EXCEPT ![s] = "open"]
       ELSE /\ UNCHANGED frames
            /\ pc' = [pc EXCEPT ![s] = "closing"]
    /\ loc' = [loc EXCEPT ![s] = LocInit]
    /\ UNCHANGED <<alive, close_reason, active_connections, ws_to_user, online, queue,
                   messages, group_messages, tasks, now, nextId, received>>

\* line 206 seen as two steps: the router's own send_text is entered
PongBegin(s) ==
    /\ pc[s] = "p_pong"
    /\ loc' = [loc EXCEPT ![s].wr = s]
    /\ pc' = [pc EXCEPT ![s] = "p_sending"]
    /\ UNCHANGED <<alive, close_reason, active_connections, ws_to_user, online, queue,
                   messages, group_messages, tasks, now, nextId, received, frames>>

\* line 206: the send_text returns or raises
PongEnd(s) ==
    /\ pc[s] = "p_sending"
    /\ IF alive[s]
       THEN /\ frames' = [frames EXCEPT ![s] = Append(@, MsgPong)]
            /\ pc' = [pc EXCEPT ![s] = "open"]
       ELSE /\ UNCHANGED frames
            /\ pc' = [pc EXCEPT ![s] = "closing"]
    /\ loc' = [loc EXCEPT ![s] = LocInit]
    /\ UNCHANGED <<alive, close_reason, active_connections, ws_to_user, online, queue,
                   messages, group_messages, tasks, now, nextId, received>>

\* ---------------------------------------------------- WebSocketHandler.handle_message
ValidationCodes == {"MISSING_RECIPIENT", "EMPTY_CONTENT", "MISSING_GROUP",
                    "MISSING_MESSAGE_ID"}

\* lines 48-49 and 66-67: the text is not JSON
BadJson(s) ==
    /\ CanReceive(s)
    /\ RejectFrame(s, "INVALID_JSON")

\* lines 60-64: no handler for the type
UnknownType(s) ==
    /\ CanReceive(s)
    /\ RejectFrame(s, "UNKNOWN_TYPE")

\* a field a handler requires is missing
Invalid(s) ==
    /\ CanReceive(s)
    /\ \E code \in ValidationCodes : RejectFrame(s, code)

\* ---------------------------------------------------------- specifications
\* no coroutine is between two awaits: handlers run in milliseconds, the
\* presence marker lasts ONLINE_TTL seconds
Quiescent == \A s \in Sockets : pc[s] \in {"idle", "unused", "open"}

\* a whole time-to-live goes by while the server is quiet
Lapse ==
    /\ Quiescent
    /\ Tick

\* the sockets of one user are numbered in the order their accept() returns
Dial(s) ==
    /\ \A t \in Sockets : (Owner(t) = Owner(s) /\ t < s) => pc[t] /= "idle"
    /\ Connect(s)

ConnSteps(s) ==
    \/ Dial(s)
    \/ SetOnline(s)
    \/ FlushGet(s)
    \/ FlushResolve(s)
    \/ FlushSend(s)
    \/ FlushMark(s)
    \/ FlushClear(s)

\* a close is noticed by the router loop's receive (controllers/websocket.py
\* line 60), so it is taken once the connection is in the loop
Hangup(s) ==
    /\ pc[s] = "open"
    /\ ClientClose(s)

CloseSteps(s) ==
    \/ Hangup(s)
    \/ Disconnect(s)
    \/ DetachMaps(s)
    \/ DetachOffline(s)

FanSteps(s) ==
    \/ FanStart(s)
    \/ FanWrite(s)
    \/ FanDone(s)

DirectSteps(s) ==
    \/ \E rcpt \in Users : DirectBegin(s, rcpt)
    \/ DirectSave(s)
    \/ DirectQueue(s)
    \/ DirectAck(s)

ReadSteps(s) ==
    \/ \E mid \in MsgIds : ReadBegin(s, mid)
    \/ ReadLookup(s)

GroupSteps(s) ==
    \/ \E g \in Groups : GroupNotMember(s, g)
    \/ \E g \in Groups : GroupBegin(s, g)
    \/ GroupNext(s)
    \/ GroupQueue(s)
    \/ GroupAck(s)

RunTask == \E t \in tasks : PersistTask(t)

\* direct messages and read receipts between clients that stay connected
Next ==
    \/ Lapse
    \/ RunTask
    \/ \E s \in Sockets :
        \/ ConnSteps(s)
        \/ FanSteps(s)
        \/ DirectSteps(s)
        \/ ReadSteps(s)

Spec == Init /\ [][Next]_vars

\* group messages between clients that stay connected
NextGroup ==
    \/ RunTask
    \/ \E s \in Sockets :
        \/ ConnSteps(s)
        \/ FanSteps(s)
        \/ GroupSteps(s)

SpecGroup == Init /\ [][NextGroup]_vars

\* the registry alone: the clients of one user connect and go away, no frames
NextCap ==
    \E s \in Sockets :
        \/ Dial(s)
        \/ SetOnline(s)
        \/ FlushGet(s)
        \/ CloseSteps(s)

SpecCap == InitCap /\ [][NextCap]_vars

\* user A sends direct messages to user B; B's clients go away without notice
\* at any point and the message store may refuse an INSERT
Drop(s) ==
    /\ Owner(s) = "B"
    /\ ClientClose(s)

FaultBegin(s, rcpt) ==
    /\ Owner(s) = "A"
    /\ DirectBegin(s, rcpt)

FaultSend(s) ==
    \/ \E rcpt \in Users : FaultBegin(s, rcpt)
    \/ DirectSave(s)
    \/ DirectSaveFails(s)
    \/ DirectQueue(s)
    \/ DirectAck(s)

NextFault ==
    \/ RunTask
    \/ \E s \in Sockets :
        \/ ConnSteps(s)
        \/ Drop(s)
        \/ Disconnect(s)
        \/ DetachMaps(s)
        \/ DetachOffline(s)
        \/ FanSteps(s)
        \/ FanDetachOffline(s)
        \/ FaultSend(s)

SpecFault == Init /\ [][NextFault]_vars

\* user A sends group messages; the clients of the other members go away
\* without notice at any point.
GroupFaultBegin(s, g) ==
    /\ Owner(s) = "A"
    /\ GroupBegin(s, g)

GroupFaultSend(s) ==
    \/ \E g \in Groups : GroupFaultBegin(s, g)
    \/ GroupNext(s)
    \/ GroupQueue(s)
    \/ GroupAck(s)

\* the persist tasks are left pending, so no group pointer has its row and
\* the flush of a reconnecting member ends after its lookups
NextGroupFault ==
    \E s \in Sockets :
        \/ Dial(s)
        \/ SetOnline(s)
        \/ FlushGet(s)
        \/ FlushResolve(s)
        \/ Drop(s)
        \/ Disconnect(s)
        \/ DetachMaps(s)
        \/ DetachOffline(s)
        \/ FanSteps(s)
        \/ FanDetachOffline(s)
        \/ GroupFaultSend(s)

SpecGroupFault == Init /\ [][NextGroupFault]_vars

\* typing frames and frames the router refuses; the message store is down, so
\* a direct send to a recipient found offline ends in the handler's exception
TypingSteps(s) ==
    \/ \E rcpt \in Users : TypingDirect(s, rcpt)
    \/ \E g \in Groups : TypingGroup(s, g)
    \/ TypingNext(s)

RejectSteps(s) ==
    \/ BadJson(s)
    \/ UnknownType(s)
    \/ Invalid(s)

StoreDownSend(s) ==
    \/ \E rcpt \in Users : FaultBegin(s, rcpt)
    \/ DirectSaveFails(s)
    \/ DirectAck(s)

NextRelay ==
    \E s \in Sockets :
        \/ Dial(s)
        \/ SetOnline(s)
        \/ FlushGet(s)
        \/ FanSteps(s)
        \/ TypingSteps(s)
        \/ RejectSteps(s)
        \/ StoreDownSend(s)

SpecRelay == Init /\ [][NextRelay]_vars

\* the registry when the presence store may refuse a command: clients
\* connect and go away
NextStore ==
    \E s \in Sockets :
        \/ Dial(s)
        \/ SetOnline(s)
        \/ SetOnlineFails(s)
        \/ FlushGet(s)
        \/ Hangup(s)
        \/ Disconnect(s)
        \/ DetachMaps(s)
        \/ DetachOffline(s)
        \/ DetachOfflineFails(s)

SpecStore == Init /\ [][NextStore]_vars

\* writes in progress: typing frames fan out to sockets whose own routers
\* answer pings
WriteTyping(s) == \E rcpt \in Users : TypingDirect(s, rcpt)

NextWrite ==
    \E s \in Sockets :
        \/ Dial(s)
        \/ SetOnline(s)
        \/ FlushGet(s)
        \/ WriteTyping(s)
        \/ FanNoSockets(s)
        \/ SendBegin(s)
        \/ SendNext(s)
        \/ SendEnd(s)
        \/ FanDone(s)
        \/ PingBegin(s)
        \/ PongBegin(s)
        \/ PongEnd(s)

SpecWrite == Init /\ [][NextWrite]_vars

\* heartbeats and the clock: the clients of user B connect, ping, go away
\* and come back while the presence marker ages
HalfLapse ==
    /\ Quiescent
    /\ now + (ONLINE_TTL \div 2) <= MaxTicks * ONLINE_TTL
    /\ now' = now + (ONLINE_TTL \div 2)
    /\ UNCHANGED <<pc, alive, close_reason, active_connections, ws_to_user, online,
                   queue, messages, group_messages, tasks, nextId, received, frames, loc>>

BeatDial(s) ==
    /\ Owner(s) = "B"
    /\ Dial(s)

PingSteps(s) ==
    \/ PingBegin(s)
    \/ PingPong(s)

NextBeat ==
    \/ Lapse
    \/ HalfLapse
    \/ \E s \in Sockets :
        \/ BeatDial(s)
        \/ SetOnline(s)
        \/ FlushGet(s)
        \/ Drop(s)
        \/ Disconnect(s)
        \/ DetachMaps(s)
        \/ DetachOffline(s)
        \/ PingSteps(s)

SpecBeat == Init /\ [][NextBeat]_vars

\* the one client of user B dies without the server noticing: its connection
\* is never closed, it may still have pinged, and user A sends to B before
\* and after the marker ran out
SilentDial(s) ==
    /\ s \in {1, 2}
    /\ Dial(s)

SilentDeath(s) ==
    /\ Owner(s) = "B"
    /\ pc[s] = "open"
    /\ ClientClose(s)

BeatPing(s) ==
    /\ Owner(s) = "B"
    /\ PingBegin(s)

SilentSend(s) ==
    \/ \E rcpt \in Users : FaultBegin(s, rcpt)
    \/ DirectSave(s)
    \/ DirectQueue(s)
    \/ DirectAck(s)

NextSilent ==
    \/ Lapse
    \/ HalfLapse
    \/ \E s \in Sockets :
        \/ SilentDial(s)
        \/ SetOnline(s)
        \/ FlushGet(s)
        \/ FlushResolve(s)
        \/ FlushSend(s)
        \/ FlushMark(s)
        \/ FlushClear(s)
        \/ SilentDeath(s)
        \/ FanStart(s)
        \/ FanDone(s)
        \/ FanDetachOffline(s)
        \/ BeatPing(s)
        \/ PingPong(s)
        \/ SilentSend(s)

SpecSilent == Init /\ [][NextSilent]_vars

\* the same, with the persist tasks of the live path running at any later
\* point, also after the clock has moved
NextStamp ==
    \/ NextSilent
    \/ RunTask

SpecStamp == Init /\ [][NextStamp]_vars

\* user A sends over one socket whose persist tasks share its store connection,
\* and either side may go away
\* handler.py line 90: the sender lookup finds the connection idle
DbSend(s, rcpt) ==
    /\ Running(s) = {}
    /\ FaultBegin(s, rcpt)

\* handler.py line 90 while a persist task's statement is in progress on the
\* connection: the driver raises, handle_message answers INTERNAL_ERROR
DbSendRefused(s) ==
    /\ Owner(s) = "A"
    /\ Running(s) /= {}
    /\ RejectFrame(s, "INTERNAL_ERROR")

StartSomeTask == \E t \in tasks : TaskStart(t)

FinishSomeTask == \E t \in tasks : TaskFinish(t)

RefuseSomeTask == \E t \in tasks : TaskRefused(t)

AbortSomeTask == \E t \in tasks : TaskAborted(t)

NextDb ==
    \/ StartSomeTask
    \/ FinishSomeTask
    \/ RefuseSomeTask
    \/ AbortSomeTask
    \/ \E s \in Sockets :
        \/ SilentDial(s)
        \/ SetOnline(s)
        \/ FlushGet(s)
        \/ FlushResolve(s)
        \/ FlushSend(s)
        \/ FlushMark(s)
        \/ FlushClear(s)
        \/ CloseSteps(s)
        \/ FanStart(s)
        \/ FanDone(s)
        \/ FanDetachOffline(s)
        \/ \E rcpt \in Users : DbSend(s, rcpt)
        \/ DbSendRefused(s)
        \/ DirectSave(s)
        \/ DirectQueue(s)
        \/ DirectAck(s)

SpecDb == Init /\ [][NextDb]_vars

\* group messages and frames a handler refuses for a missing field, one client
\* per user; a marker may run out, so that a sender can be offline by it
NextReject ==
    \/ Lapse
    \/ RunTask
    \/ \E s \in Sockets :
        \/ SilentDial(s)
        \/ SetOnline(s)
        \/ FlushGet(s)
        \/ FlushResolve(s)
        \/ FlushSend(s)
        \/ FlushMark(s)
        \/ FlushClear(s)
        \/ FanStart(s)
        \/ FanDone(s)
        \/ GroupSteps(s)
        \/ Invalid(s)

SpecReject == Init /\ [][NextReject]_vars

TypeOK ==
    /\ \A u \in Users : active_connections[u] \subseteq Sockets
    /\ now \in 0 .. (MaxTicks * ONLINE_TTL)
    /\ received \in 0 .. MaxFrames

\* ------------------------------------------------------------------ claims
HasFrame(s, f) == \E i \in 1 .. Len(frames[s]) : frames[s][i] = f
PointerIds(q) == {q[i].message_id : i \in 1 .. Len(q)}
\* message m was acknowledged to its sender as queued for an offline recipient
AckedQueued(m) == \E s \in Sockets : HasFrame(s, MsgAck(m, FALSE, TRUE, 0))
\* the ids of the messages.offline batches written to socket s
BatchedOn(s) ==
    UNION {SeqToSet(frames[s][i].ids) :
             i \in {j \in 1 .. Len(frames[s]) : frames[s][j].type = "messages.offline"}}
InBatchTo(u, m) == \E s \in Sockets : Owner(s) = u /\ m \in BatchedOn(s)
\* socket s takes the step that reads its user's offline queue
FlushReads(s) == pc[s] = "flush_get" /\ pc'[s] /= "flush_get"

\* C1: a direct message that was acknowledged delivered=false, queued=true and
\* has not yet been sent in a messages.offline frame is read by the offline
\* flush of every connection the recipient makes afterwards, so that a flush
\* that completes delivers it; the message is never silently lost.
C1_QueuedReachesLaterFlush ==
    [][\A s \in Sockets : \A m \in MsgIds :
          (FlushReads(s) /\ AckedQueued(m) /\ ~messages[m].absent
             /\ messages[m].recipient = Owner(s) /\ ~InBatchTo(Owner(s), m))
          => m \in PointerIds(queue[Owner(s)])]_vars

\* socket s takes the step that clears its user's offline queue
FlushClears(s) == pc[s] = "flush_mark" /\ pc'[s] = "open"

\* C2: the clear_offline_queue of a flush removes only pointers whose
\* messages were in the messages.offline frame this flush sent; every other
\* pointer of the queue is still there afterwards.
C2_ClearRemovesOnlySent ==
    [][\A s \in Sockets :
          FlushClears(s) =>
             \A i \in 1 .. Len(queue[Owner(s)]) :
                \/ queue[Owner(s)][i].message_id \in BatchedOn(s)
                \/ queue[Owner(s)][i] \in SeqToSet(queue'[Owner(s)])]_vars

\* socket s reads a valid message.send
DirectReceived(s) == pc[s] = "open" /\ pc'[s] \in {"fan_start", "d_save"}
                        /\ loc'[s].kind = "direct"
AttachedLive(u) == \E b \in active_connections[u] : alive[b]

\* C3: a valid message.send received while the recipient has a socket
\* attached in the registry is fanned out as message.new to the recipient's
\* sockets, whatever the state of the presence marker; it does not take the
\* queue path, which writes no message.new.
C3_AttachedRecipientGetsLive ==
    [][\A s \in Sockets :
          (DirectReceived(s) /\ AttachedLive(loc'[s].to)) => pc'[s] = "fan_start"]_vars

\* the places of direct message m of sender u in what socket b was sent:
\* <<frame, 0>> for a message.new, <<frame, index>> inside a messages.offline
PlacesOn(b, m, u) ==
    {<<i, 0>> : i \in {j \in 1 .. Len(frames[b]) : frames[b][j] = MsgNew(m, u)}}
    \cup {p \in (1 .. Len(frames[b])) \X (1 .. MaxFrames) :
             /\ frames[b][p[1]].type = "messages.offline"
             /\ p[2] <= Len(frames[b][p[1]].ids)
             /\ frames[b][p[1]].ids[p[2]] = m
             /\ ~messages[m].absent
             /\ messages[m].sender = u}
PlaceBefore(p, q) == p[1] < q[1] \/ (p[1] = q[1] /\ p[2] < q[2])
\* user A holds one connection, socket 1, which mints ids in the order it
\* reads its frames
SingleConnSender == "A"

\* C4: two direct messages m1, m2 emitted in that order on one sender
\* connection arrive on any recipient connection that receives both in that
\* order, live or inside a messages.offline batch.
C4_PerSenderFifo ==
    \A b \in Sockets : \A m1, m2 \in MsgIds :
        m1 < m2 =>
            \A p \in PlacesOn(b, m1, SingleConnSender) :
            \A q \in PlacesOn(b, m2, SingleConnSender) : PlaceBefore(p, q)

\* C5: in every state another coroutine can observe, every socket of the
\* reverse map is in the forward set of the user the map names, and every
\* socket of a forward set has a reverse entry naming that user.
C5_TwoWayMaps ==
    /\ \A s \in Sockets :
          ws_to_user[s] /= "none" => s \in active_connections[ws_to_user[s]]
    /\ \A u \in Users : \A s \in active_connections[u] : ws_to_user[s] = u

\* C6: no user ever holds more than MAX_CONNECTIONS_PER_USER sockets.
C6_PerUserCap ==
    \A u \in Users : Cardinality(active_connections[u]) <= MAX_CONNECTIONS_PER_USER

C6_Witness ==
    \E u \in Users : \E s \in Sockets :
        /\ Owner(s) = u
        /\ pc[s] = "refused"
        /\ Cardinality(active_connections[u]) = MAX_CONNECTIONS_PER_USER

\* C7: a connection attempt of a user who holds MAX_CONNECTIONS_PER_USER
\* sockets ends closed with reason "Too many connections" and changes neither
\* registry map, no presence marker, no queue, no frame and no other
\* connection; the refused socket stays refused and out of both maps.
C7_RefusedLeavesNoTrace ==
    [][\A s \in Sockets :
          /\ (/\ pc[s] = "idle"
              /\ pc'[s] /= "idle"
              /\ Cardinality(active_connections[Owner(s)]) = MAX_CONNECTIONS_PER_USER)
             => /\ pc'[s] = "refused"
                /\ close_reason'[s] = "Too many connections"
                /\ active_connections' = active_connections
                /\ ws_to_user' = ws_to_user
                /\ online' = online
                /\ queue' = queue
                /\ frames' = frames
                /\ \A t \in Sockets \ {s} : pc'[t] = pc[t]
          /\ pc[s] = "refused"
             => /\ pc'[s] = "refused"
                /\ ws_to_user'[s] = "none"
                /\ \A u \in Users : s \notin active_connections'[u]]_vars

C7_Witness ==
    \E s \in Sockets :
        /\ pc[s] = "refused"
        /\ close_reason[s] = "Too many connections"
        /\ ws_to_user[s] = "none"
        /\ Cardinality(active_connections[Owner(s)]) = MAX_CONNECTIONS_PER_USER
        /\ online[Owner(s)] > 0

\* C8: for every row of messages, delivered_at when set is not before
\* created_at, and read_at when set comes with a delivered_at that is not
\* after it.
C8_MonotoneLifecycle ==
    \A m \in MsgIds :
        ~messages[m].absent =>
            /\ messages[m].delivered_at /= None
                  => messages[m].created_at <= messages[m].delivered_at
            /\ messages[m].read_at /= None
                  => /\ messages[m].delivered_at /= None
                     /\ messages[m].delivered_at <= messages[m].read_at

\* socket s reads a message.read naming message m
ReadReceived(s, m) == pc[s] = "open" /\ pc'[s] = "r_lookup" /\ loc'[s].id = m

\* C9: a row of messages stays; a delivered_at or read_at that is set is
\* never changed; and read_at becomes set only in the step that processes a
\* message.read of the message's recipient.
C9_SetOnce ==
    [][\A m \in MsgIds :
          /\ messages[m].absent /\ ~messages'[m].absent
                => messages'[m].read_at = None
          /\ ~messages[m].absent
                => /\ ~messages'[m].absent
                   /\ messages[m].delivered_at /= None
                         => messages'[m].delivered_at = messages[m].delivered_at
                   /\ messages[m].read_at /= None
                         => messages'[m].read_at = messages[m].read_at
                   /\ (messages[m].read_at = None /\ messages'[m].read_at /= None)
                         => \E s \in Sockets :
                               /\ ReadReceived(s, m)
                               /\ Owner(s) = messages[m].recipient]_vars

\* a message two flushes marked delivered, which its recipient then read at
\* a later time
C9_Witness ==
    \E m \in MsgIds :
        /\ ~messages[m].absent
        /\ messages[m].delivered_at /= None
        /\ messages[m].read_at /= None
        /\ messages[m].delivered_at < messages[m].read_at
        /\ Cardinality({s \in Sockets : m \in BatchedOn(s)}) = 2

\* socket s takes the step that looks up the pointer at the head of what it
\* read from the queue
FlushLooksUp(s) == pc[s] = "flush_resolve" /\ loc'[s].queued /= loc[s].queued

\* C10: every pointer of an offline queue, direct or group, has its row in
\* the message store at the moment the flush looks it up.
C10_QueueImpliesStore ==
    [][\A s \in Sockets :
          FlushLooksUp(s) => Resolves(Head(loc[s].queued))]_vars

\* socket s takes the step that writes its messages.offline frame
FlushWrites(s) == pc[s] = "flush_send" /\ pc'[s] = "flush_mark"

\* C11: a lookup of the flush that finds no row (or an unknown kind) drops
\* that pointer only: the messages collected so far stay, a pointer that
\* resolves is added after them, the loop goes on with the next pointer, and
\* the messages.offline frame carries exactly the messages collected.
C11_SkipKeepsOthers ==
    [][\A s \in Sockets :
          /\ FlushLooksUp(s) =>
                LET ptr == Head(loc[s].queued)
                IN /\ loc'[s].queued = Tail(loc[s].queued)
                   /\ loc'[s].msgs = IF Resolves(ptr) THEN Append(loc[s].msgs, ptr)
                                     ELSE loc[s].msgs
                   /\ pc'[s] = IF loc'[s].queued /= <<>> THEN "flush_resolve"
                               ELSE IF loc'[s].msgs /= <<>> THEN "flush_send"
                               ELSE "open"
          /\ FlushWrites(s) =>
                frames'[s] = Append(frames[s], MsgOffline(BatchIds(loc[s].msgs)))]_vars

\* a batch was written that carries a message queued after one whose pointer
\* is still without a row
C11_Witness ==
    \E s \in Sockets :
        /\ pc[s] = "flush_mark"
        /\ \E i, j \in 1 .. Len(queue[Owner(s)]) :
              /\ i < j
              /\ queue[Owner(s)][i].message_id \in BatchedOn(s)
              /\ ~Resolves(queue[Owner(s)][j])
              /\ queue[Owner(s)][j].message_id \notin BatchedOn(s)

\* the connection of socket s is on its way out or gone
Leaving(s) == pc[s] \in {"closing", "closing_offline", "closed"}

\* C12: when the write of the messages.offline frame fails, the flush ends
\* there: that step and the steps of the flush before it leave the queue and
\* the store as they are, the connection goes to its finally clause and never
\* comes back, and clear_offline_queue runs only on a connection whose batch
\* was written; the pointers stay for the next connection.
C12_FailedWriteKeepsQueue ==
    [][\A s \in Sockets :
          /\ (FlushReads(s) \/ FlushLooksUp(s)) => (queue' = queue /\ messages' = messages)
          /\ (pc[s] = "flush_send" /\ ~alive[s] /\ pc'[s] /= "flush_send")
                => /\ pc'[s] = "closing"
                   /\ queue' = queue
                   /\ messages' = messages
                   /\ frames'[s] = frames[s]
          /\ Leaving(s) => (pc'[s] \in {"closing", "closing_offline", "closed"})
          /\ FlushClears(s) => BatchedOn(s) /= {}]_vars

\* the write of a batch failed on one connection and a later connection of
\* the same user was sent the messages of that batch
C12_Witness ==
    \E s, t \in Sockets :
        /\ Owner(s) = Owner(t)
        /\ Leaving(s)
        /\ loc[s].kind = "flush"
        /\ loc[s].msgs /= <<>>
        /\ frames[s] = <<>>
        /\ PointerIds(loc[s].msgs) \subseteq BatchedOn(t)

\* C13: when a flush has run to its end (the step that clears the queue),
\* every direct message of the batch it sent has delivered_at set in the
\* store and the queue key of that user is gone.
C13_FlushedIsDelivered ==
    [][\A s \in Sockets :
          FlushClears(s) =>
             /\ queue'[Owner(s)] = <<>>
             /\ BatchedOn(s) /= {}
             /\ \A m \in BatchedOn(s) :
                   /\ ~messages'[m].absent
                   /\ messages'[m].delivered_at /= None]_vars

\* a completed flush: the batch on the socket, its message marked, the key gone
C13_Witness ==
    \E s \in Sockets : \E m \in MsgIds :
        /\ pc[s] = "open"
        /\ m \in BatchedOn(s)
        /\ ~messages[m].absent
        /\ messages[m].delivered_at /= None
        /\ queue[Owner(s)] = <<>>

\* C14: a messages.offline frame is the first frame written to its socket,
\* so nothing a concurrent fan-out writes comes before it and a connection
\* is sent at most one batch.
C14_BatchIsFirstFrame ==
    \A s \in Sockets : \A i \in 1 .. Len(frames[s]) :
        frames[s][i].type = "messages.offline" => i = 1

\* C15: the messages of a messages.offline batch are in the order in which
\* their pointers were pushed; user A's one connection pushes the pointers
\* of its messages in the order of their ids.
C15_BatchOldestFirst ==
    \A s \in Sockets : \A k \in 1 .. Len(frames[s]) :
        (frames[s][k].type = "messages.offline" /\ Owner(s) /= SingleConnSender) =>
            \A i, j \in 1 .. Len(frames[s][k].ids) :
                i < j => frames[s][k].ids[i] < frames[s][k].ids[j]

\* socket s writes the ack of a message.send whose presence query was positive
LiveAcks(s) == pc[s] = "d_ack" /\ loc[s].is_online /\ pc'[s] = "open"
\* some socket of user u was sent message.new for message m of sender v
Accepted(u, m, v) == \E b \in Sockets : Owner(b) = u /\ HasFrame(b, MsgNew(m, v))
InSomeQueue(m) == \E u \in Users : m \in PointerIds(queue[u])

FramesAbout(s, m) == {i \in 1 .. Len(frames[s]) : frames[s][i].id = m}
\* the message.new frames of message m on socket b
NewFramesOf(b, m) == {i \in 1 .. Len(frames[b]) : frames[b][i].type = "message.new"
                                                   /\ frames[b][i].id = m}

\* C17 (S1): sender and recipient hold one attached socket each and the
\* recipient's presence marker was found; when the handler of the message.send
\* is through, the recipient's socket holds exactly one message.new of the
\* message, and the sender's socket exactly one frame about it, the
\* message.ack with delivered=true and queued=false, and no error frame.
C17_OnlineDirect ==
    [][\A s \in Sockets : \A m \in MsgIds : \A u \in Users :
          (/\ LiveAcks(s)
           /\ loc[s].id = m
           /\ loc[s].to = u
           /\ Cardinality(active_connections[Owner(s)]) = 1
           /\ Cardinality(active_connections[u]) = 1)
          => /\ \A b \in active_connections[u] :
                   /\ Cardinality(NewFramesOf(b, m)') = 1
                   /\ HasFrame(b, MsgNew(m, Owner(s)))'
             /\ Cardinality(FramesAbout(s, m)') = 1
             /\ HasFrame(s, MsgAck(m, TRUE, FALSE, 0))'
             /\ \A i \in 1 .. Len(frames'[s]) : frames'[s][i].type /= "error"]_vars

\* S1 has run: one socket each, message.new on the recipient's, the ack on
\* the sender's
C17_Witness ==
    \E s, b \in Sockets : \E m \in MsgIds :
        /\ active_connections[Owner(s)] = {s}
        /\ active_connections[Owner(b)] = {b}
        /\ Owner(s) /= Owner(b)
        /\ pc[s] = "open"
        /\ HasFrame(b, MsgNew(m, Owner(s)))
        /\ HasFrame(s, MsgAck(m, TRUE, FALSE, 0))

\* socket s pushes the pointer of its message on the offline path
DirectPushes(s) == pc[s] = "d_queue" /\ pc'[s] = "d_ack"
\* socket s writes the ack of the offline path
QueuedAcks(s) == pc[s] = "d_ack" /\ ~loc[s].is_online /\ pc'[s] = "open"

\* C18: on the offline path the row is in the store, with delivered_at null,
\* when its pointer is pushed; the ack delivered=false, queued=true is written
\* after the push, with the row in the store; and every direct pointer of a
\* queue, before and after every step, has its row.
C18_RowBeforePointer ==
    [][/\ \A s \in Sockets : \A m \in MsgIds :
            (DirectPushes(s) /\ loc[s].id = m) =>
               /\ ~messages[m].absent
               /\ messages[m].delivered_at = None
               /\ ~InSomeQueue(m)
               /\ queue'[loc[s].to] = <<Pointer(m, "direct", "none")>> \o queue[loc[s].to]
               /\ \A t \in Sockets : ~HasFrame(t, MsgAck(m, FALSE, TRUE, 0))
       /\ \A s \in Sockets : \A m \in MsgIds :
            (QueuedAcks(s) /\ loc[s].id = m) =>
               /\ ~messages[m].absent
               /\ frames'[s] = Append(frames[s], MsgAck(m, FALSE, TRUE, 0))
       /\ \A u \in Users : \A i \in 1 .. Len(queue'[u]) :
            queue'[u][i].type = "direct" => ~messages'[queue'[u][i].message_id].absent]_vars

\* a direct pointer in a queue, its row undelivered in the store, its ack
\* with the sender
C18_Witness ==
    \E s \in Sockets : \E m \in MsgIds : \E u \in Users :
        /\ Pointer(m, "direct", "none") \in SeqToSet(queue[u])
        /\ ~messages[m].absent
        /\ messages[m].recipient = u
        /\ messages[m].delivered_at = None
        /\ HasFrame(s, MsgAck(m, FALSE, TRUE, 0))

\* socket s leaves the INSERT of the offline path without a row written
PersistFails(s) == pc[s] = "d_save" /\ pc'[s] /= "d_save" /\ messages' = messages

\* C19: when the INSERT of the offline path fails, no pointer is pushed, the
\* sender is written one error frame with code INTERNAL_ERROR and nothing
\* else for that message.send (the handler is over), no ack with queued=true
\* ever names the message, and the sender's connection is back in its loop.
C19_PersistFailure ==
    [][/\ \A s \in Sockets : \A m \in MsgIds :
            (PersistFails(s) /\ loc[s].id = m /\ alive[s]) =>
               /\ queue' = queue
               /\ frames'[s] = Append(frames[s], MsgError("INTERNAL_ERROR"))
               /\ \A t \in Sockets \ {s} : frames'[t] = frames[t]
               /\ pc'[s] = "open"
               /\ loc'[s] = LocInit
               /\ active_connections' = active_connections
               /\ ws_to_user' = ws_to_user
               /\ tasks' = tasks
       /\ \A m \in MsgIds :
            (messages'[m].absent /\ \A t \in tasks' : t.id /= m) =>
               /\ ~InSomeQueue(m)'
               /\ \A s \in Sockets : ~HasFrame(s, MsgAck(m, FALSE, TRUE, 0))']_vars

\* the store refused the INSERT of message m: the sender holds the error
\* frame and is open, there is no row, no pointer and no ack
C19_Witness ==
    \E s \in Sockets : \E m \in MsgIds :
        /\ m < nextId
        /\ messages[m].absent
        /\ \A t \in tasks : t.id /= m
        /\ pc[s] = "open"
        /\ alive[s]
        /\ HasFrame(s, MsgError("INTERNAL_ERROR"))
        /\ FramesAbout(s, m) = {}
        /\ ~InSomeQueue(m)
        /\ \A t \in Sockets : loc[t].id /= m

\* the rows of group_members hold user u for group g
InGroup(u, g) == \E i \in 1 .. Len(Members(g)) : Members(g)[i] = u

\* socket s reads a client frame
ReadsFrame(s) == pc[s] = "open" /\ received' = received + 1
                    /\ (pc'[s] /= pc[s] \/ frames'[s] /= frames[s])
\* socket s is written the error frame NOT_MEMBER
Refused(s) == frames'[s] = Append(frames[s], MsgError("NOT_MEMBER"))

\* C20: a message.group.send is either taken up for a group its sender is a
\* member of, or answered with the error NOT_MEMBER; the step that answers
\* NOT_MEMBER writes that one frame and changes nothing else (no
\* message.group.new, no pointer, no row, no task, the connection stays in
\* its loop); and no handler, task or row ever carries a group message of a
\* sender who is not a member of the group.
C20_NotMemberNoEffect ==
    [][/\ \A s \in Sockets :
            ReadsFrame(s) =>
               \/ /\ loc'[s].kind = "group"
                  /\ InGroup(Owner(s), loc'[s].group)
               \/ /\ Refused(s)
                  /\ \E g \in Groups : ~InGroup(Owner(s), g)
       /\ \A s \in Sockets :
            Refused(s) =>
               /\ pc' = pc
               /\ pc[s] = "open"
               /\ \A t \in Sockets \ {s} : frames'[t] = frames[t]
               /\ queue' = queue
               /\ group_messages' = group_messages
               /\ messages' = messages
               /\ tasks' = tasks
               /\ nextId' = nextId
               /\ loc' = loc
               /\ active_connections' = active_connections
               /\ ws_to_user' = ws_to_user
       /\ \A s \in Sockets :
            loc'[s].kind = "group" => InGroup(Owner(s), loc'[s].group)
       /\ \A t \in tasks' : t.kind = "group" => InGroup(t.sender, t.to)
       /\ \A m \in MsgIds :
            ~group_messages'[m].absent
               => InGroup(group_messages'[m].sender, group_messages'[m].group)]_vars

\* a user outside group H holds the error NOT_MEMBER on an open connection
C20_Witness ==
    \E s \in Sockets :
        /\ ~InGroup(Owner(s), "H")
        /\ pc[s] = "open"
        /\ HasFrame(s, MsgError("NOT_MEMBER"))

\* some socket of user u was sent message.group.new for message m of sender v
AcceptedGroup(u, m, v) == \E b \in Sockets : Owner(b) = u /\ HasFrame(b, MsgGroupNew(m, v))
\* socket s leaves the broadcast of its group message for the queue loop
BroadcastEnds(s) == pc[s] = "g_next" /\ pc'[s] = "g_queue"

\* C21: when the broadcast of an accepted group send is over and the queue
\* loop starts, every member other than the sender either was written
\* message.group.new on a socket or is among the members whose queue is
\* about to get the pointer; nobody is left with neither.
C21_EveryMemberServed ==
    [][\A s \in Sockets : \A m \in MsgIds : \A u \in Users :
          (/\ BroadcastEnds(s)
           /\ loc[s].id = m
           /\ InGroup(u, loc[s].group)
           /\ u /= Owner(s))
          => \/ AcceptedGroup(u, m, Owner(s))
             \/ u \in SeqToSet(OfflineTargets(loc[s].offl, Owner(s)))]_vars

\* socket s writes the ack of its group send
GroupAcks(s) == pc[s] = "g_queue" /\ pc'[s] = "open"
\* the members other than the sender
Recipients(g, sender) == {u \in Users : InGroup(u, g) /\ u /= sender}
\* the recipients the presence query of the handler on socket s found online
PresenceOnline(s) ==
    Recipients(loc[s].group, Owner(s)) \ SeqToSet(OfflineTargets(loc[s].offl, Owner(s)))

TypingKinds == {"typing", "typing_group"}
TypingStep(s) ==
    /\ loc[s].kind \in TypingKinds \/ loc'[s].kind \in TypingKinds
    /\ pc'[s] /= pc[s] \/ loc'[s] /= loc[s]

\* C23: no step of the typing handler, for a direct or a group target, adds
\* a row to the store, starts a persist task, pushes a pointer or writes
\* anything but the typing frame itself (so no message.ack); and a typing
\* frame for a direct recipient without an attached socket is dropped: the
\* handler returns to the loop with no frame written to anyone.
C23_TypingPureRelay ==
    [][\A s \in Sockets :
          TypingStep(s) =>
             /\ messages' = messages
             /\ group_messages' = group_messages
             /\ tasks' = tasks
             /\ queue' = queue
             /\ online' = online
             /\ \A t \in Sockets :
                   frames'[t] = frames[t] \/ frames'[t] = Append(frames[t], MsgTyping)
             /\ (/\ pc[s] = "fan_start"
                 /\ loc[s].kind = "typing"
                 /\ active_connections[loc[s].to] = {})
                => /\ frames' = frames
                   /\ pc'[s] = "open"]_vars

\* two typing frames were processed, the first while B had no socket: B's
\* one socket holds a single typing frame and nothing else was written or
\* stored
C23_Witness ==
    /\ received >= 2
    /\ Quiescent
    /\ \E b \in Sockets :
          /\ Owner(b) = "B"
          /\ frames[b] = <<MsgTyping>>
          /\ \A t \in Sockets \ {b} : frames[t] = <<>>
    /\ \A u \in Users : queue[u] = <<>>
    /\ \A m \in MsgIds : messages[m].absent /\ group_messages[m].absent
    /\ tasks = {}

\* the codes of the frames the router refuses before any handler runs
RefusalCodes == {"INVALID_JSON", "UNKNOWN_TYPE"} \cup ValidationCodes
\* socket s is attached in both maps of the registry
Attached(s) == s \in active_connections[Owner(s)] /\ ws_to_user[s] = Owner(s)
\* the router of socket s consumes a frame without starting a handler
ConsumesInLoop(s) ==
    /\ received' = received + 1
    /\ pc[s] = "open"
    /\ pc' = pc
    /\ loc' = loc
    /\ \A t \in Sockets \ {s} : frames'[t] = frames[t]

\* C24: a frame that is not JSON, has an unknown type or fails validation,
\* and a frame whose handler raises (the store refuses the INSERT), is
\* answered to a connected client with exactly one error frame carrying
\* INVALID_JSON, UNKNOWN_TYPE, the validation code or INTERNAL_ERROR; the
\* step leaves the registry as it is with the socket attached, and the
\* connection is back in its loop to read the next frame. No error frame is
\* written in any other way.
C24_ErrorKeepsConnection ==
    [][\A s \in Sockets :
          /\ (ConsumesInLoop(s) /\ alive[s])
                => \E code \in RefusalCodes :
                      frames'[s] = Append(frames[s], MsgError(code))
          /\ (PersistFails(s) /\ alive[s])
                => frames'[s] = Append(frames[s], MsgError("INTERNAL_ERROR"))
          /\ (frames'[s] /= frames[s] /\ frames'[s][Len(frames'[s])].type = "error")
                => /\ \E code \in RefusalCodes \cup {"INTERNAL_ERROR", "NOT_MEMBER"} :
                         frames'[s] = Append(frames[s], MsgError(code))
                   /\ \A t \in Sockets \ {s} : frames'[t] = frames[t]
                   /\ active_connections' = active_connections
                   /\ ws_to_user' = ws_to_user
                   /\ Attached(s)'
                   /\ alive'[s]
                   /\ pc'[s] = "open"
                   /\ loc'[s] = LocInit]_vars

\* a handler raised on one socket, which then had its next frame refused as
\* of unknown type: two error frames, the socket still attached and reading
C24_Witness ==
    \E s \in Sockets :
        /\ frames[s] = <<MsgError("INTERNAL_ERROR"), MsgError("UNKNOWN_TYPE")>>
        /\ Attached(s)
        /\ pc[s] = "open"

\* the instants of the model's clock
BeatTimes == {k * (ONLINE_TTL \div 2) : k \in 0 .. (2 * MaxTicks)}
\* the ping of socket s was processed at time t0 and found the marker, which
\* now runs until t0 + ONLINE_TTL
PingRefreshed(s, t0) ==
    /\ pc[s] = "p_pong"
    /\ now = t0
    /\ online[Owner(s)] = t0 + ONLINE_TTL
\* less than ONLINE_TTL has passed since t0 and socket s is still attached
StillWithin(s, t0) ==
    /\ now < t0 + ONLINE_TTL
    /\ s \in active_connections[Owner(s)]

\* C25: once a ping of user u has refreshed the marker online:{u} at time
\* t0, is_user_online(u) stays true before t0 + ONLINE_TTL: no step taken
\* after the refresh makes it false (stated here for the steps taken while
\* the pong of that ping is still to be written and the socket that
\* pinged is still attached).
C25_PingKeepsOnline ==
    [][\A s \in Sockets : \A t0 \in BeatTimes :
          (PingRefreshed(s, t0) /\ StillWithin(s, t0)')
             => IsUserOnline(Owner(s))']_vars

\* the direct-message handler of socket s reads the presence of its recipient
DirectReadsPresence(s) ==
    /\ pc[s] = "open"
    /\ loc'[s].kind = "direct"
    /\ pc'[s] \in {"fan_start", "d_save"}
\* the marker of user u is written or refreshed in this step
MarkerWritten(u) ==
    \E s \in Sockets : Owner(s) = u /\ (pc[s] = "set_online" \/ pc'[s] = "p_pong")

\* C26: a presence marker never reaches further than ONLINE_TTL ahead and
\* only an attach or a ping of the user moves it forward, so ONLINE_TTL
\* after the last of these is_user_online is false, whether or not a dead
\* socket of the user is still attached; a direct send that reads the
\* presence of such a recipient takes the offline path: it persists the row,
\* then pushes the pointer, then acks delivered=false, queued=true.
C26_SilentDeathGoesOffline ==
    [][/\ \A u \in Users :
            /\ online'[u] <= now' + ONLINE_TTL
            /\ online'[u] > online[u] => MarkerWritten(u)
       /\ \A s \in Sockets : \A m \in MsgIds : \A u \in Users :
            /\ (DirectReadsPresence(s) /\ loc'[s].to = u /\ online[u] <= now)
                  => pc'[s] = "d_save" /\ ~loc'[s].is_online
            /\ (pc[s] = "d_save" /\ pc'[s] /= "d_save" /\ loc[s].id = m /\ loc[s].to = u)
                  => /\ pc'[s] = "d_queue"
                     /\ ~messages'[m].absent
                     /\ messages'[m].recipient = u
                     /\ queue' = queue
            /\ (pc[s] = "d_queue" /\ pc'[s] /= "d_queue" /\ loc[s].id = m /\ loc[s].to = u)
                  => /\ pc'[s] = "d_ack"
                     /\ queue'[u] = <<Pointer(m, "direct", "none")>> \o queue[u]
            /\ (pc[s] = "d_ack" /\ pc'[s] /= "d_ack" /\ ~loc[s].is_online
                   /\ loc[s].id = m /\ alive[s])
                  => frames'[s] = Append(frames[s], MsgAck(m, FALSE, TRUE, 0))]_vars

\* B's client died and no detach ran: its socket is still attached and its
\* connection still in the loop; the marker ran out, and a message of A to B
\* was persisted, queued and acked as queued
C26_Witness ==
    \E b \in Sockets : \E a \in Sockets : \E m \in MsgIds :
        /\ Owner(b) = "B"
        /\ ~alive[b]
        /\ pc[b] = "open"
        /\ b \in active_connections["B"]
        /\ online["B"] <= now
        /\ Owner(a) = "A"
        /\ HasFrame(a, MsgAck(m, FALSE, TRUE, 0))
        /\ ~messages[m].absent
        /\ m \in PointerIds(queue["B"])

\* send_to_user, called on socket s for a direct message, writes to one socket
FanWrites(s) ==
    /\ pc[s] \in {"fan_start", "fan_write"}
    /\ pc'[s] = "fan_write"
    /\ loc'[s] /= loc[s]
\* the sockets send_to_user still has to write to, and its list of failed writes
ToWrite(s) == IF pc[s] = "fan_start" THEN active_connections[loc[s].cur] ELSE loc[s].snap
Disconnected(s) == IF pc[s] = "fan_start" THEN <<>> ELSE loc[s].failed
\* send_to_user is past its writes and detaches the sockets whose write failed
FanDetaches(s) ==
    /\ pc[s] \in {"fan_write", "fan_detach_off"}
    /\ pc'[s] /= pc[s] \/ loc'[s] /= loc[s]
    /\ pc'[s] /= "fan_write"
\* send_to_user returns into the direct-message handler
FanReturns(s) == pc[s] \in {"fan_start", "fan_write", "fan_detach_off"} /\ pc'[s] = "d_ack"
Detached(t) == t \notin active_connections[Owner(t)] /\ ws_to_user[t] = "none"

\* C27: send_to_user writes the frame to every socket of its snapshot, one
\* at a time: a write that succeeds appends the frame to that socket, a
\* write that fails puts the socket on the list of failed writes, and in
\* both cases the loop goes on until the snapshot is used up. Afterwards
\* the sockets on that list, and no others, are removed from
\* active_connections and _ws_to_user, and the result is true exactly when
\* some socket of the recipient accepted the frame.
C27_FanOutSurvivesFailures ==
    [][\A s \in Sockets : \A m \in MsgIds : \A u \in Users :
          (loc'[s].id = m /\ loc'[s].cur = u /\ loc'[s].kind = "direct") =>
             /\ FanWrites(s) =>
                   \E ws \in ToWrite(s) :
                      /\ loc'[s].snap = ToWrite(s) \ {ws}
                      /\ IF alive[ws]
                         THEN /\ frames'[ws] = Append(frames[ws], MsgNew(m, Owner(s)))
                              /\ loc'[s].failed = Disconnected(s)
                         ELSE /\ frames' = frames
                              /\ loc'[s].failed = Append(Disconnected(s), ws)
                      /\ active_connections' = active_connections
                      /\ ws_to_user' = ws_to_user
             /\ FanDetaches(s) =>
                   /\ loc[s].snap = {}
                   /\ frames' = frames
                   /\ \A t \in SeqToSet(loc[s].failed) \ SeqToSet(loc'[s].failed) :
                         Detached(t)'
                   /\ \A t \in Sockets \ SeqToSet(loc[s].failed) :
                         /\ t \in active_connections'[Owner(t)]
                              <=> t \in active_connections[Owner(t)]
                         /\ ws_to_user'[t] = ws_to_user[t]
             /\ FanReturns(s) =>
                   /\ loc'[s].failed = <<>>
                   /\ loc'[s].delivered <=> Accepted(u, m, Owner(s))']_vars

\* a message of A went to a snapshot of two sockets of B: the write to one
\* failed and that socket is detached, the other holds the frame and is
\* still attached, and the result is true
C27_Witness ==
    \E s \in Sockets : \E t1 \in Sockets : \E t2 \in Sockets :
        /\ pc[s] = "d_ack"
        /\ loc[s].nsnap = 2
        /\ loc[s].nfail = 1
        /\ loc[s].delivered
        /\ Owner(t1) = loc[s].to
        /\ Owner(t2) = loc[s].to
        /\ HasFrame(t1, MsgNew(loc[s].id, Owner(s)))
        /\ t1 \in active_connections[Owner(t1)]
        /\ ~HasFrame(t2, MsgNew(loc[s].id, Owner(s)))
        /\ ~alive[t2]
        /\ Detached(t2)

\* the coroutine of socket s is inside a send_text on socket ws
Writing(s, ws) == loc[s].wr = ws

\* C28: no two coroutines are inside a send_text on the same socket at the
\* same time, whether the write is a fan-out from another connection or the
\* socket's own router answering.
C28_WritesSerialized ==
    \A ws \in Sockets : \A s1 \in Sockets : \A s2 \in Sockets :
        (Writing(s1, ws) /\ Writing(s2, ws)) => s1 = s2

\* C29: a socket whose connection handler has terminated, on whatever path,
\* is in neither active_connections nor _ws_to_user.
C29_ClosedIsDetached ==
    \A s \in Sockets : pc[s] = "closed" => Detached(s)

\* the registry is quiet for user u: no connection of u is between the map
\* edit and the presence command of an attach or a detach
NoAttachOrDetach(u) ==
    \A s \in Sockets :
        Owner(s) = u => pc[s] \notin {"set_online", "closing", "closing_offline"}

\* C30: whenever a user has a socket attached, no attach or detach of that
\* user is in progress and ONLINE_TTL has not gone by since the marker was
\* last written, the marker online:{user} is present.
C30_AttachedIsOnline ==
    \A u \in Users :
        (active_connections[u] /= {} /\ NoAttachOrDetach(u) /\ now < ONLINE_TTL)
            => IsUserOnline(u)

\* the connection of socket s runs the map edit of its own detach
OwnDetach(s) == pc[s] = "closing" /\ pc'[s] /= "closing"
\* the coroutine of socket s is at the await of _set_user_offline for user u
MarksOffline(s, u) ==
    \/ pc[s] = "closing_offline" /\ Owner(s) = u
    \/ pc[s] = "fan_detach_off" /\ loc[s].cur = u
\* this step empties the socket set of user u
Empties(u) == active_connections[u] /= {} /\ active_connections'[u] = {}

\* C31: a detach goes on to delete online:{user} exactly when its map edit
\* removed the user's last attached socket, whether the detach is the
\* connection's own exit or the clean-up of a failed fan-out write; the map
\* edit itself leaves the marker alone, the delete follows as the next step
\* of that coroutine, and nothing else deletes a marker.
C31_OfflineIffLast ==
    [][/\ \A s \in Sockets :
            /\ OwnDetach(s) =>
                  /\ online' = online
                  /\ active_connections'[Owner(s)] = active_connections[Owner(s)] \ {s}
                  /\ pc'[s] = "closing_offline" <=> active_connections[Owner(s)] = {s}
                  /\ pc'[s] = "closed" <=> active_connections[Owner(s)] /= {s}
            /\ \A u \in Users :
                  (FanDetaches(s) /\ loc[s].cur = u) =>
                     /\ pc'[s] = "fan_detach_off" <=> Empties(u)
                     /\ pc[s] = "fan_write" => online' = online
            /\ \A u \in Users :
                  (MarksOffline(s, u) /\ (pc'[s] /= pc[s] \/ loc'[s] /= loc[s]))
                     => online'[u] = 0
       /\ \A u \in Users :
            (online'[u] /= online[u] /\ online'[u] = 0)
               => \E s \in Sockets : MarksOffline(s, u)]_vars

\* the later of B's two sockets is detached and closed, the earlier one is
\* still attached, and online:B was not touched
C31_Witness ==
    \E s \in Sockets : \E t \in Sockets :
        /\ Owner(s) = "B"
        /\ Owner(t) = "B"
        /\ pc[s] = "closed"
        /\ Detached(s)
        /\ t \in active_connections["B"]
        /\ pc[t] = "open"
        /\ t < s
        /\ online["B"] = ONLINE_TTL

\* the handler of socket s leaves the live path of a direct send
LivePathEnds(s) ==
    /\ pc[s] = "d_ack"
    /\ loc[s].is_online
    /\ pc'[s] /= "d_ack"
\* the sender of direct message m was told it went the live path
AckedLive(m) ==
    \E s \in Sockets : \E d \in BOOLEAN : HasFrame(s, MsgAck(m, d, FALSE, 0))

\* C32: on the live path the handler hands save_direct_message the
\* frame's created_at as delivered_at when some socket of the recipient
\* accepted message.new and null otherwise; the INSERT stores that value,
\* and the row of a message acked on the live path has delivered_at set
\* exactly when a socket of the recipient holds its message.new.
C32_DeliveredAtIffAccepted ==
    [][/\ \A s \in Sockets : \A m \in MsgIds : \A u \in Users :
            (LivePathEnds(s) /\ loc[s].id = m /\ loc[s].to = u) =>
               \E t \in tasks' \ tasks :
                  /\ tasks' = tasks \cup {t}
                  /\ t.id = m
                  /\ t.delivered_at = IF Accepted(u, m, Owner(s))
                                      THEN loc[s].ts ELSE None
       /\ \A t \in tasks :
            (messages[t.id].absent /\ ~messages'[t.id].absent)
               => messages'[t.id].delivered_at = t.delivered_at
       /\ \A m \in MsgIds : \A u \in Users : \A v \in Users :
            (/\ ~messages'[m].absent
             /\ messages'[m].recipient = u
             /\ messages'[m].sender = v
             /\ AckedLive(m)')
               => (messages'[m].delivered_at /= None <=> Accepted(u, m, v)')]_vars

\* a message accepted by B's socket at time 0 was persisted after the clock
\* moved: the row's delivered_at is the frame's timestamp, not the time of
\* the INSERT
C32_Witness ==
    \E m \in MsgIds :
        /\ ~messages[m].absent
        /\ AckedLive(m)
        /\ Accepted("B", m, "A")
        /\ messages[m].delivered_at = 0
        /\ messages[m].created_at > 0

\* the direct-message handler of socket s writes its ack
DirectAcks(s) == pc[s] = "d_ack" /\ pc'[s] = "open"

\* C33: the ack of a direct message says either delivered=true, queued=false,
\* and then some socket of the recipient was written message.new, or
\* delivered=false, queued=true, and then a pointer was pushed to the
\* recipient's queue; it never says delivered=false, queued=false.
C33_AckedIsDeliveredOrQueued ==
    [][\A s \in Sockets : \A m \in MsgIds : \A u \in Users :
          (DirectAcks(s) /\ loc[s].id = m /\ loc[s].to = u) =>
             \/ /\ frames'[s] = Append(frames[s], MsgAck(m, TRUE, FALSE, 0))
                /\ Accepted(u, m, Owner(s))
             \/ /\ frames'[s] = Append(frames[s], MsgAck(m, FALSE, TRUE, 0))
                /\ m \in PointerIds(queue[u]) \/ InBatchTo(u, m)]_vars


\* the persist task t is gone from the pending set in the next state
TaskGone(t) == \A r \in tasks' : r.id /= t.id

\* the row a persist task was created for is in the store in the next state
RowWritten(t) ==
    IF t.kind = "direct" THEN ~messages'[t.id].absent
    ELSE ~group_messages'[t.id].absent

\* C34: a persist task of the live path that finds no other statement on its
\* connection ends with its row written, also when the sender's connection
\* has closed after the ack.
C34_TaskEndsWithRow ==
    [][\A t \in tasks :
          (TaskGone(t) /\ ~DbAwait(t.conn) /\ Running(t.conn) \ {t} = {})
             => RowWritten(t)]_vars

\* C35: a persist task never reaches its statement while the handler of its
\* connection, or another task, has a statement in progress on that
\* connection, and a handler never reaches a statement while a task has one
\* in progress.
C35_OneStatementAtATime ==
    [][/\ \A t \in tasks : (~t.started /\ DbBusy(t.conn)) => t \in tasks'
       /\ \A s \in Sockets :
            (Running(s) /= {} /\ pc[s] = "open")
               => (received' = received \/ pc'[s] /= "open" \/ frames'[s] = frames[s])]_vars


\* the message.read.receipt frames for message m written to socket s
Receipts(s, m) ==
    {i \in 1 .. Len(frames[s]) :
        frames[s][i].type = "message.read.receipt" /\ frames[s][i].id = m}

\* C36: a message.read.receipt is written only for a message.read that
\* recorded the read: the one socket of a message's sender holds no receipt
\* for a message whose read_at is null, and at most one for a message that
\* was read.
C36_ReceiptOnlyForRecordedRead ==
    \A s \in Sockets : \A m \in MsgIds :
        Cardinality(Receipts(s, m))
            <= (IF ~messages[m].absent /\ messages[m].read_at /= None THEN 1 ELSE 0)


\* the handler of socket s works on a frame that names a group its sender is
\* not a member of
OutsiderFrame(s) ==
    /\ loc[s].kind \in {"group", "typing_group"}
    /\ ~InGroup(Owner(s), loc[s].group)

\* C37: a frame that names group G (message.group.send, or typing with
\* group_id) sent by a user outside G makes no step of its handler write a
\* frame to any socket of a member of G.
C37_OutsiderWritesNothing ==
    [][\A s \in Sockets : \A t \in Sockets :
          (OutsiderFrame(s) /\ loc'[s] /= loc[s] /\ InGroup(Owner(t), loc[s].group))
             => frames'[t] = frames[t]]_vars


\* the ping handler of socket s writes its pong
PongWritten(s) == pc[s] = "p_pong" /\ frames'[s] = Append(frames[s], MsgPong)

\* C38: when the pong of a ping has been written to a socket that is
\* attached, the marker of its user is set and not expired, whatever the
\* marker was before the ping.
C38_OnlineAfterPing ==
    [][\A s \in Sockets :
          (PongWritten(s) /\ s \in active_connections[Owner(s)])
             => online'[Owner(s)] > now']_vars


\* the connection of socket s runs its own detach after a failed fan-out
\* write has already taken s out of the registry
SecondDetach(s) == OwnDetach(s) /\ s \notin active_connections[Owner(s)]

\* C39: the detach a connection runs at its exit, for a socket that the
\* clean-up of a failed fan-out write has detached before, removes no socket
\* from the registry, leaves the reverse entry of every other socket and
\* every online marker as they are, and ends without the DEL, also when the
\* user has another or a newly attached socket.
C39_SecondDetachIsNoOp ==
    [][\A s \in Sockets :
          SecondDetach(s) =>
             /\ active_connections' = active_connections
             /\ online' = online
             /\ pc'[s] = "closed"
             /\ ws_to_user'[s] = "none"
             /\ \A t \in Sockets \ {s} : ws_to_user'[t] = ws_to_user[t]]_vars

\* a socket of B that a fan-out has detached is about to run its own detach
\* while a newer socket of B is attached and B's marker is set
C39_Witness ==
    \E s \in Sockets : \E t \in Sockets :
        /\ Owner(s) = "B" /\ Owner(t) = "B" /\ s < t
        /\ pc[s] = "closing"
        /\ Detached(s)
        /\ t \in active_connections["B"]
        /\ pc[t] = "open"
        /\ IsUserOnline("B")


\* user u is the sender of group message m: its handler is running, or its
\* persist task is pending, or its row is stored
GroupSender(m, u) ==
    \/ \E s \in Sockets : loc[s].kind = "group" /\ loc[s].id = m /\ Owner(s) = u
    \/ \E t \in tasks : t.kind = "group" /\ t.id = m /\ t.sender = u
    \/ ~group_messages[m].absent /\ group_messages[m].sender = u

\* no socket of the sender holds its own message.group.new, no queue entry and
\* no messages.offline batch of the sender names its own message
SenderNotServed ==
    \A m \in MsgIds : \A u \in Users :
        GroupSender(m, u) =>
           /\ ~AcceptedGroup(u, m, u)
           /\ m \notin PointerIds(queue[u])
           /\ ~InBatchTo(u, m)
           /\ \A s \in Sockets : Owner(s) = u => m \notin PointerIds(loc[s].queued)

\* socket s is written the error frame of a failed validation
Rejected(s) == \E code \in ValidationCodes : frames'[s] = Append(frames[s], MsgError(code))

\* C40: the step that answers a frame with MISSING_RECIPIENT, EMPTY_CONTENT,
\* MISSING_GROUP or MISSING_MESSAGE_ID writes that one error frame to the
\* sender's socket and changes neither the message store, nor a queue, a
\* marker, the registry, the pending tasks or any other socket; and the
\* sender of a group message is never written its own message.group.new nor
\* given a queue pointer for it.
C40_RejectsAndSenderExcluded ==
    /\ []SenderNotServed
    /\ [][\A s \in Sockets :
             Rejected(s) =>
                /\ messages' = messages
                /\ group_messages' = group_messages
                /\ queue' = queue
                /\ online' = online
                /\ active_connections' = active_connections
                /\ ws_to_user' = ws_to_user
                /\ tasks' = tasks
                /\ pc' = pc
                /\ \A t \in Sockets \ {s} : frames'[t] = frames[t]]_vars

\* A was refused a frame for a missing field and has sent a group message
\* that B's socket was written
C40_Witness ==
    \E s \in Sockets : \E m \in MsgIds : \E code \in ValidationCodes :
        /\ Owner(s) = "A"
        /\ HasFrame(s, MsgError(code))
        /\ GroupSender(m, "A")
        /\ AcceptedGroup("B", m, "A")
        /\ pc[s] = "open"

====
